---------------------------- MODULE Spec2Model ----------------------------
(***************************************************************************)
(* A model of the aw peer-to-peer library: the peer-address directory      *)
(* (dht), the gossip broadcaster and the ping/pong engine, as state        *)
(* machines over per-node state.  A call of an operation that can block or *)
(* that reads shared state more than once is a process in `calls`, with    *)
(* one action per step between two accesses of shared state.               *)
(***************************************************************************)
EXTENDS Integers, Sequences, FiniteSets, TLC

(***************************************************************************)
(* Bounds of the model.                                                    *)
(***************************************************************************)
NumNodes == 3      \* nodes of the network; node n has PeerID n
MaxPeer == 2       \* PeerIDs 1..MaxPeer appear in the single-node directory
MaxGroup == 1      \* named GroupIDs 1..MaxGroup (0 is NilGroupID)
MaxBody == 1       \* message bodies 1..MaxBody
MaxGroupLen == 2   \* longest PeerID list given to AddGroup
MaxNonce == 2      \* nonces 1..MaxNonce
MaxNet == 2        \* network addresses 1..MaxNet
MaxCalls == 2      \* calls in progress at the same time
MaxBootstrap == 1  \* bootstrap addresses given to dht.New
MaxHandlers == 1   \* pingPonger calls made in one behaviour
MaxSample == 3     \* sample sizes 0..MaxSample asked of RandomPeerAddresses
QueueCap == 1      \* capacity of the outbound message channel
EventCap == 1      \* capacity of the event channel
CountCap == 2      \* the history counters saturate at this value
MaxKey == 3        \* RSA keys that can be generated or named
MaxChallenge == 2  \* 32-byte challenges that can be drawn
MaxForged == 2     \* public keys and challenges in a payload made by the intruder
MaxTamper == 1     \* frames changed on the stream in one handshake
SigLength == 2     \* bytes in a signature: signVerifier.SigLength()
MaxByte == 1       \* the bytes of a stream are 0..MaxByte
MaxSize == 4       \* longest frame declared or sent on a stream of bytes
WordBits == 4      \* width of the unsigned word that stands for uint64
MaxRecords == 2    \* records a client writes to its connection
MaxReads == 3      \* reads the handler of a connection makes in one behaviour
MaxAnnounce == 2   \* pings the announcer of a new address sends

(***************************************************************************)
(* Program constants.                                                      *)
(***************************************************************************)
NilGroupID == 0
V1 == 1
NoKey == 0            \* rsa.PublicKey{}
ShortPlaintext == 0   \* a plaintext that is not 32 bytes long, and [32]byte{}

Nodes == 1..NumNodes
PeerIDs == 1..NumNodes
GroupIDs == 0..MaxGroup
Bodies == 1..MaxBody
Versions == {V1, V1 + 1}
Variants == {"Ping", "Pong", "Cast", "Broadcast"}
CallIds == 1..MaxCalls
Slots == CallIds

Min(a, b) == IF a < b THEN a ELSE b

Bump(k) == Min(k + 1, CountCap)

RECURSIVE SeqsUpTo(_, _)
SeqsUpTo(S, k) ==
    IF k = 0 THEN {<<>>}
    ELSE LET shorter == SeqsUpTo(S, k - 1)
         IN  shorter \cup {Append(s, x) : s \in {t \in shorter : Len(t) = k - 1}, x \in S}

Range(s) == {s[i] : i \in DOMAIN s}

\* The number of positions of sequence s whose element satisfies Test.
Count(s, Test(_)) == Cardinality({i \in DOMAIN s : Test(s[i])})

(***************************************************************************)
(* protocol: peer addresses, messages, frames, events.                     *)
(***************************************************************************)
NilAddr == [id |-> 0, net |-> 0, nonce |-> 0]

PeerAddress(id, net, nonce) == [id |-> id, net |-> net, nonce |-> nonce]

Addresses == {PeerAddress(p, a, k) : p \in PeerIDs, a \in 1..MaxNet, k \in 1..MaxNonce}

\* peerAddr.IsNewer(other): the higher nonce wins, a nil other is always older.
IsNewer(addr, other) == other = NilAddr \/ addr.nonce > other.nonce

\* The PeerAddressCodec: an address as one number, and back.
Encode(addr) == (addr.id * (MaxNet + 1) + addr.net) * (MaxNonce + 1) + addr.nonce

Decode(data) ==
    PeerAddress((data \div (MaxNonce + 1)) \div (MaxNet + 1),
                (data \div (MaxNonce + 1)) % (MaxNet + 1),
                data % (MaxNonce + 1))

NoData == Encode(NilAddr)

NewMessage(version, variant, groupID, body) ==
    [version |-> version, variant |-> variant, groupID |-> groupID, body |-> body]

VariantCode(variant) ==
    CASE variant = "Ping" -> 1
      [] variant = "Pong" -> 2
      [] variant = "Cast" -> 3
      [] variant = "Broadcast" -> 4

\* message.Hash(): a digest over the whole record, here without collisions.
Hash(m) ==
    ((m.version * 5 + VariantCode(m.variant)) * (MaxGroup + 1) + m.groupID)
        * (MaxBody + 1) + m.body

MessageOnTheWire(to, m) == [To |-> to, Message |-> m]

EventMessageReceived(body, from) == [Message |-> body, From |-> from]

EventPeerChanged(peerAddr) == [PeerAddress |-> peerAddr]

\* peerAddr.NetworkAddress()
NetworkAddress(peerAddr) == peerAddr.net

\* Whether the codec decodes the data into a peer address.
Decodes(data) == Decode(data) \in Addresses /\ Encode(Decode(data)) = data

\* The address of node n itself (dht.me).
Me(n) == PeerAddress(n, 1, 1)

VARIABLES
    inMemCache,   \* dht.inMemCache of each node: PeerID -> address or NilAddr
    table,        \* dht.store of each node: PeerID -> encoded address or NoData
    groups,       \* dht.groups of each node: GroupID -> [ok, ids]
    store,        \* broadcaster.store of each node: the hashes inserted
    messages,     \* the outbound channel of each node
    events,       \* the event channel of each node
    calls,        \* the calls in progress
    received,     \* history: MessageReceived events ever sent, per node and hash
    delivered,    \* history: frames handed to AcceptBroadcast, per node and hash
    updates,      \* history: the latest UpdatePeerAddress calls of the directory
                  \* model, none but them having written since the first
    written,      \* history: the latest call of a writer in the directory model
    sampled,      \* history: the latest RandomPeerAddresses call
    handshakers,  \* the two ends of a handshake: their identity and their position
    rw,           \* the stream between them, and the frames it has carried
    slices,       \* the PeerID lists the callers of AddGroup and GroupIDs hold
    locks,        \* dht.groupsMu and dht.inMemCacheMu: who holds and who waits
    conn,         \* a connection the tcp server has accepted, and what was read
    verifying,    \* a verifyAndStripSignature call on a stream of bytes
    pinged        \* history: the pings announced, and each node's pongs and propagations

hsVars == <<handshakers, rw>>

extVars == <<slices, locks, conn, verifying, pinged, pinged>>

vars == <<inMemCache, table, groups, store, messages, events, calls, received, delivered,
          updates, written, sampled, handshakers, rw, slices, locks, conn,
          verifying, pinged>>

dhtVars == <<inMemCache, table, groups, updates, written, sampled, hsVars, extVars>>

(***************************************************************************)
(* dht: the reads of the directory.                                        *)
(***************************************************************************)
NoGroup == [ok |-> FALSE, ids |-> <<>>]

Group(ids) == [ok |-> TRUE, ids |-> ids]

NoError == [kind |-> "nil", cause |-> ""]

Error(kind, cause) == [kind |-> kind, cause |-> cause]

Canceled == "context canceled"

Stored(n) == {p \in PeerIDs : inMemCache[n][p] # NilAddr}

\* dht.NumPeers
NumPeers(n) == Cardinality(Stored(n))

\* The orders in which a range over a map of the given keys may run.
Orders(S) == {s \in SeqsUpTo(S, Cardinality(S)) : Len(s) = Cardinality(S) /\ Range(s) = S}

\* dht.PeerAddresses: every stored address, in the map's iteration order,
\* which the language leaves open: the set of the lists it may return.
PeerAddresses(n) == {[i \in DOMAIN o |-> inMemCache[n][o[i]]] : o \in Orders(Stored(n))}

\* dht.PeerAddress
PeerAddressOf(n, id) ==
    IF inMemCache[n][id] = NilAddr
    THEN [addr |-> NilAddr, err |-> Error("ErrPeerNotFound", "")]
    ELSE [addr |-> inMemCache[n][id], err |-> NoError]

\* dht.GroupIDs of a named group: a copy of the stored list, or ErrGroupNotFound.
GroupIDsOf(n, groupID) ==
    IF ~groups[n][groupID].ok
    THEN [ids |-> <<>>, err |-> Error("ErrGroupNotFound", "")]
    ELSE [ids |-> groups[n][groupID].ids, err |-> NoError]

\* A resolution that looks self up in the index like any other peer.
RECURSIVE ResolveIDsSelfLookedUp(_, _)
ResolveIDsSelfLookedUp(n, ids) ==
    IF ids = <<>> THEN <<>>
    ELSE LET id == Head(ids)
             rest == ResolveIDsSelfLookedUp(n, Tail(ids))
         IN  IF inMemCache[n][id] = NilAddr THEN rest
             ELSE <<inMemCache[n][id]>> \o rest

\* The loop of dht.GroupAddresses over the ids of a named group: self resolves
\* to dht.me, a stored peer to its address, and any other id is skipped.
RECURSIVE ResolveIDs(_, _)
ResolveIDs(n, ids) ==
    IF ids = <<>> THEN <<>>
    ELSE LET id == Head(ids)
             rest == ResolveIDs(n, Tail(ids))
         IN  IF id = Me(n).id THEN <<Me(n)>> \o rest
             ELSE IF inMemCache[n][id] = NilAddr THEN rest
             ELSE <<inMemCache[n][id]>> \o rest

(***************************************************************************)
(* Calls.  A call keeps the locals of the running operation and, as        *)
(* history, what it has done so far.                                       *)
(***************************************************************************)
NoMessage == NewMessage(0, "Broadcast", NilGroupID, 0)

IdleCall ==
    [op |-> "none", node |-> 0, pc |-> "idle", ctxDone |-> FALSE,
     from |-> 0, message |-> NoMessage, sending |-> NoMessage,
     ids |-> <<>>, addrs |-> <<>>, pending |-> {}, err |-> NoError,
     peerAddr |-> NilAddr, prevPeerAddr |-> NilAddr, to |-> 0,
     \* history
     cancelledAtCall |-> FALSE,   \* the context was cancelled when called
     seenOnAccept |-> "",         \* what AcceptBroadcast's dedup check found
     seenOnBroadcast |-> "",      \* what Broadcast's dedup check found
     inserted |-> FALSE,          \* the call inserted its hash into the store
     emitted |-> <<>>,            \* the events the call has sent
     frames |-> <<>>,             \* the frames the call has enqueued, ordered by target
     after |-> {},                \* the calls that had returned when it was called
     known |-> {}]                \* the addresses stored when propagatePing read them

\* The frame added to the frames a call has enqueued, which are kept in the
\* order of their targets.
RECURSIVE Enqueued(_, _)
Enqueued(frames, wire) ==
    IF frames = <<>> \/ Encode(wire.To) <= Encode(Head(frames).To) THEN <<wire>> \o frames
    ELSE <<Head(frames)>> \o Enqueued(Tail(frames), wire)

Running(c) == calls[c].pc \notin {"idle", "done"}

Returned == {c \in Slots : calls[c].pc = "done"}

\* The slot a new call takes: the lowest idle one.
FreeSlot(c) == calls[c].pc = "idle" /\ \A d \in Slots : d < c => calls[d].pc # "idle"

\* The call returns err; its locals are gone.
Done(call, err) ==
    [call EXCEPT !.pc = "done", !.err = err, !.ids = <<>>, !.addrs = <<>>, !.pending = {}]

\* A select between <-ctx.Done() and a send on a channel holding `len` of `cap`
\* items: the cases that are ready, of which the runtime takes any one.
SelectReady(ctxDone, len, cap) ==
    (IF ctxDone THEN {"done"} ELSE {}) \cup (IF len < cap THEN {"send"} ELSE {})

\* A dedup check that never finds the hash.
messageHashNeverSeen(n, hash) == FALSE

\* broadcaster.messageHashAlreadySeen
messageHashAlreadySeen(n, hash) == hash \in store[n]

\* A check of the context that never finds it done.
CtxNeverExpired(call) == FALSE

\* select { case <-ctx.Done(): ...; default: } (lines 75-79 and 135-139)
CtxExpired(call) == call.ctxDone

\* An insert that leaves the store as it is.
StoreInsertLost(n, hash) == store[n]

\* broadcaster.store.Insert(hash, true) (line 83)
StoreInsert(n, hash) == store[n] \cup {hash}

\* Pre-condition checks that let any variant through.
PreConditionVersionOnly(message) ==
    IF message.version # V1 THEN Error("ErrMessageVersionIsNotSupported", "")
    ELSE NoError

\* The pre-condition checks of AcceptBroadcast (lines 109-115).
PreCondition(message) ==
    IF message.version # V1 THEN Error("ErrMessageVersionIsNotSupported", "")
    ELSE IF message.variant # "Broadcast" THEN Error("ErrMessageVariantIsNotSupported", "")
    ELSE NoError

(***************************************************************************)
(* broadcaster.Broadcast                                                   *)
(***************************************************************************)
\* The call and the message it builds (line 59).
Broadcast(c, n, groupID, body, cancelled) ==
    /\ FreeSlot(c)
    /\ LET m == NewMessage(V1, "Broadcast", groupID, body)
       IN  calls' = [calls EXCEPT ![c] =
                        [IdleCall EXCEPT !.op = "Broadcast", !.node = n, !.pc = "seen",
                                         !.ctxDone = cancelled, !.cancelledAtCall = cancelled,
                                         !.message = m, !.sending = m,
                                         !.after = Returned]]
    /\ UNCHANGED <<dhtVars, store, messages, events, received, delivered>>

\* Lines 60-66: ignore the message if it has been sent already.
BroadcastSeen(c) ==
    /\ calls[c].pc = "seen"
    /\ LET call == calls[c]
           ok == messageHashAlreadySeen(call.node, Hash(call.sending))
       IN  calls' = [calls EXCEPT ![c] =
                        IF ok THEN Done([call EXCEPT !.seenOnBroadcast = "yes"], NoError)
                        ELSE [call EXCEPT !.seenOnBroadcast = "no", !.pc = "groupAddresses"]]
    /\ UNCHANGED <<dhtVars, store, messages, events, received, delivered>>

\* dht.GroupAddresses: PeerAddresses() for NilGroupID; for a named group the
\* addresses its ids resolve to, or ErrGroupNotFound.  The set of the results
\* it may give.
GroupAddresses(n, groupID) ==
    IF groupID = NilGroupID
    THEN {[addrs |-> addrs, err |-> NoError] : addrs \in PeerAddresses(n)}
    ELSE LET got == GroupIDsOf(n, groupID)
         IN  IF got.err # NoError THEN {[addrs |-> <<>>, err |-> got.err]}
             ELSE {[addrs |-> ResolveIDs(n, got.ids), err |-> NoError]}

\* Lines 68-72: all addresses in the group with the given ID.
BroadcastGroupAddresses(c) ==
    /\ calls[c].pc = "groupAddresses"
    /\ LET call == calls[c]
       IN  \E got \in GroupAddresses(call.node, call.sending.groupID) :
               calls' = [calls EXCEPT ![c] =
                            IF got.err # NoError THEN Done(call, got.err)
                            ELSE [call EXCEPT !.addrs = got.addrs, !.pc = "ctx"]]
    /\ UNCHANGED <<dhtVars, store, messages, events, received, delivered>>

\* Lines 74-79: the context has expired already.
BroadcastCtx(c) ==
    /\ calls[c].pc = "ctx"
    /\ LET call == calls[c]
       IN  calls' = [calls EXCEPT ![c] =
                        IF CtxExpired(call)
                        THEN Done(call, Error("ErrBroadcasting", Canceled))
                        ELSE [call EXCEPT !.pc = "insert"]]
    /\ UNCHANGED <<dhtVars, store, messages, events, received, delivered>>

\* Line 103: Broadcast returns once every target has been handled.
Handled(call, i) ==
    IF call.pending \ {i} = {}
    THEN Done([call EXCEPT !.pending = {}], NoError)
    ELSE [call EXCEPT !.pending = @ \ {i}]

\* A target lost to the cancellation that ends the whole call with an error.
DroppedFatal(call, i) == Done(call, Error("ErrBroadcasting", Canceled))

\* Lines 97-98: the target is logged and dropped, and the worker goes on.
Dropped(call, i) == Handled(call, i)

\* Lines 81-85: the hash goes into the store before the fan-out starts.
BroadcastInsert(c) ==
    /\ calls[c].pc = "insert"
    /\ LET call == calls[c]
           fanout == [call EXCEPT !.inserted = TRUE, !.pending = DOMAIN call.addrs,
                                  !.pc = "fanout"]
       IN  /\ store' = [store EXCEPT ![call.node] = StoreInsert(call.node, Hash(call.sending))]
           /\ calls' = [calls EXCEPT ![c] =
                           IF call.addrs = <<>> THEN Done(fanout, NoError) ELSE fanout]
    /\ UNCHANGED <<dhtVars, messages, events, received, delivered>>

\* Lines 87-103: one target of ParForAllAddresses.  The workers take the
\* targets in any order; each sends its frame or, the context done, drops it.
BroadcastSend(c) ==
    /\ calls[c].pc = "fanout"
    /\ LET call == calls[c]
           n == call.node
       IN  \E i \in call.pending :
               LET to == call.addrs[i]
                   wire == MessageOnTheWire(to, call.sending)
               IN  IF to = NilAddr
                   THEN /\ calls' = [calls EXCEPT ![c] = Handled(call, i)]
                        /\ UNCHANGED messages
                   ELSE \E case \in SelectReady(call.ctxDone, Len(messages[n]), QueueCap) :
                            IF case = "send"
                            THEN /\ messages' = [messages EXCEPT ![n] = Append(@, wire)]
                                 /\ calls' = [calls EXCEPT ![c] =
                                                 Handled([call EXCEPT !.frames = Enqueued(@, wire)], i)]
                            ELSE /\ calls' = [calls EXCEPT ![c] = Dropped(call, i)]
                                 /\ UNCHANGED messages
    /\ UNCHANGED <<dhtVars, store, events, received, delivered>>

(***************************************************************************)
(* broadcaster.AcceptBroadcast                                             *)
(***************************************************************************)
\* The call and its pre-condition checks (lines 109-115).
AcceptCall(n, from, message, cancelled) ==
    LET call == [IdleCall EXCEPT !.op = "AcceptBroadcast", !.node = n,
                                 !.ctxDone = cancelled, !.cancelledAtCall = cancelled,
                                 !.from = from, !.message = message,
                                 !.after = Returned]
    IN  IF PreCondition(message) # NoError
        THEN Done(call, PreCondition(message))
        ELSE [call EXCEPT !.pc = "acceptSeen"]

AcceptBroadcast(c, n, from, message, cancelled) ==
    /\ FreeSlot(c)
    /\ calls' = [calls EXCEPT ![c] = AcceptCall(n, from, message, cancelled)]
    /\ UNCHANGED <<dhtVars, store, messages, events, received, delivered>>

\* Lines 117-125: ignore messages that have been seen already.
AcceptSeen(c) ==
    /\ calls[c].pc = "acceptSeen"
    /\ LET call == calls[c]
           ok == messageHashAlreadySeen(call.node, Hash(call.message))
       IN  calls' = [calls EXCEPT ![c] =
                        IF ok THEN Done([call EXCEPT !.seenOnAccept = "yes"], NoError)
                        ELSE [call EXCEPT !.seenOnAccept = "no", !.pc = "acceptCtx"]]
    /\ UNCHANGED <<dhtVars, store, messages, events, received, delivered>>

\* A check of the context after which the call goes on into Broadcast without
\* sending its event.
AcceptCtxNoEvent(c) ==
    /\ calls[c].pc = "acceptCtx"
    /\ LET call == calls[c]
       IN  calls' = [calls EXCEPT ![c] =
                        IF CtxExpired(call)
                        THEN Done(call, Error("ErrAcceptingBroadcast", Canceled))
                        ELSE [call EXCEPT !.sending = NewMessage(V1, "Broadcast",
                                                                 call.message.groupID,
                                                                 call.message.body),
                                          !.pc = "seen"]]
    /\ UNCHANGED <<dhtVars, store, messages, events, received, delivered>>

\* Lines 134-139: the context has expired already.
AcceptCtx(c) ==
    /\ calls[c].pc = "acceptCtx"
    /\ LET call == calls[c]
       IN  calls' = [calls EXCEPT ![c] =
                        IF CtxExpired(call)
                        THEN Done(call, Error("ErrAcceptingBroadcast", Canceled))
                        ELSE [call EXCEPT !.pc = "acceptEvent"]]
    /\ UNCHANGED <<dhtVars, store, messages, events, received, delivered>>

\* Lines 141-149: the event is sent, and the call goes on into Broadcast with
\* the message's group and body.
AcceptEvent(c) ==
    /\ calls[c].pc = "acceptEvent"
    /\ LET call == calls[c]
           n == call.node
           event == EventMessageReceived(call.message.body, call.from)
           h == Hash(call.message)
       IN  \E case \in SelectReady(call.ctxDone, Len(events[n]), EventCap) :
               IF case = "send"
               THEN /\ events' = [events EXCEPT ![n] = Append(@, event)]
                    /\ received' = [received EXCEPT ![n][h] = Bump(@)]
                    /\ calls' = [calls EXCEPT ![c] =
                                    [call EXCEPT !.emitted = Append(@, event),
                                                 !.sending = NewMessage(V1, "Broadcast",
                                                                        call.message.groupID,
                                                                        call.message.body),
                                                 !.pc = "seen"]]
               ELSE /\ calls' = [calls EXCEPT ![c] =
                                    Done(call, Error("ErrAcceptingBroadcast", Canceled))]
                    /\ UNCHANGED <<events, received>>
    /\ UNCHANGED <<dhtVars, store, messages, delivered>>

(***************************************************************************)
(* The callers and the consumers of the channels.                          *)
(***************************************************************************)
\* The caller cancels the context of a running call.
Cancel(c) ==
    /\ Running(c)
    /\ ~calls[c].ctxDone
    /\ calls' = [calls EXCEPT ![c].ctxDone = TRUE]
    /\ UNCHANGED <<dhtVars, store, messages, events, received, delivered>>

\* The transport takes the next frame from the outbound channel.
ReceiveMessage(n) ==
    /\ messages[n] # <<>>
    /\ messages' = [messages EXCEPT ![n] = Tail(@)]
    /\ UNCHANGED <<dhtVars, store, events, calls, received, delivered>>

\* The application takes the next event from the event channel.
ReceiveEvent(n) ==
    /\ events[n] # <<>>
    /\ events' = [events EXCEPT ![n] = Tail(@)]
    /\ UNCHANGED <<dhtVars, store, messages, calls, received, delivered>>

(***************************************************************************)
(* handshaker: Handshake on the initiator's end of a stream and            *)
(* AcceptHandshake on the responder's end.  Keys, signatures and           *)
(* ciphertexts are symbolic: a public key and its private key are one key  *)
(* number, a signature names its signer and the hash it was made over, a   *)
(* ciphertext names the key it was made for and its plaintext.  A payload  *)
(* is the sequence of the public keys and challenges written into it.      *)
(***************************************************************************)
Initiator == "initiator"

Responder == "responder"

Intruder == "intruder"

Roles == {Initiator, Responder}

Signers == {Initiator, Responder, Intruder}

RsaKeys == 1..MaxKey

Challenges == 1..MaxChallenge

Plaintexts == Challenges \cup {ShortPlaintext}

\* protocol.SignVerifier
SignVerifierHash(data) == [hash |-> data]

Sign(signer, hash) == [signer |-> signer, hash |-> hash]

Verify(trusted, hash, sig) == sig.signer \in trusted /\ sig.hash = hash

SignVerifier(signer, trusted) == [signer |-> signer, trusted |-> trusted]

\* rsa.EncryptPKCS1v15 and rsa.DecryptPKCS1v15
EncryptPKCS1v15(pubKey, plaintext) ==
    [kind |-> "challenge", key |-> pubKey, plaintext |-> plaintext]

DecryptPKCS1v15(privKey, ciphertext) ==
    IF ciphertext.key = privKey
    THEN [ok |-> TRUE, plaintext |-> ciphertext.plaintext]
    ELSE [ok |-> FALSE, plaintext |-> ShortPlaintext]

writePubKey(buf, pubKey) == Append(buf, [kind |-> "pubKey", key |-> pubKey])

readPubKey(buf) ==
    IF buf # <<>> /\ Head(buf).kind = "pubKey"
    THEN [ok |-> TRUE, pubKey |-> Head(buf).key, buf |-> Tail(buf)]
    ELSE [ok |-> FALSE, pubKey |-> NoKey, buf |-> buf]

writeChallenge(buf, challenge, pubKey) == Append(buf, EncryptPKCS1v15(pubKey, challenge))

\* readChallenge: the challenge is read when the ciphertext decrypts under
\* the private key to 32 bytes.
readChallenge(buf, privKey) ==
    IF buf = <<>> \/ Head(buf).kind # "challenge"
    THEN [ok |-> FALSE, challenge |-> ShortPlaintext, buf |-> buf]
    ELSE LET decrypted == DecryptPKCS1v15(privKey, Head(buf))
         IN  IF ~decrypted.ok \/ decrypted.plaintext = ShortPlaintext
             THEN [ok |-> FALSE, challenge |-> ShortPlaintext, buf |-> Tail(buf)]
             ELSE [ok |-> TRUE, challenge |-> decrypted.plaintext, buf |-> Tail(buf)]

\* A frame: the data and the signature that follows it.  `altered` is
\* history: the data was changed on the stream under the signature it had.
Frame(data, sig) == [data |-> data, sig |-> sig, altered |-> FALSE]

\* signAndAppendSignature: the frame made of all that the buffer holds.
signAndAppendSignature(signVerifier, buf) ==
    Frame(buf, Sign(signVerifier.signer, SignVerifierHash(buf)))

\* verifyAndStripSignature of a frame read whole: the data is added to the
\* buffer when the signature verifies over its hash.
verifyAndStripSignature(signVerifier, frame, buf) ==
    IF Verify(signVerifier.trusted, SignVerifierHash(frame.data), frame.sig)
    THEN [ok |-> TRUE, buf |-> buf \o frame.data]
    ELSE [ok |-> FALSE, buf |-> buf]

\* A handshaker and the locals of its call.
Handshaker(signVerifier, pc) ==
    [signVerifier |-> signVerifier, pc |-> pc, rsaKey |-> NoKey, buf |-> <<>>,
     challenge |-> ShortPlaintext, pubKey |-> NoKey, err |-> NoError, steps |-> <<>>]

NoHandshakers == [role \in Roles |-> Handshaker(SignVerifier(role, {}), "Done")]

\* The stream: the frames on their way to each end, and as history the
\* frames each end has written and read and the frames changed on the way.
NoStream == [to |-> [role \in Roles |-> <<>>],
             written |-> <<>>,
             read |-> [role \in Roles |-> <<>>],
             tampered |-> 0]

Peer(role) == IF role = Initiator THEN Responder ELSE Initiator

Write(stream, role, frame) ==
    [stream EXCEPT !.to[Peer(role)] = Append(@, frame),
                   !.written = Append(@, [from |-> role, frame |-> frame])]

Read(stream, role) ==
    [stream EXCEPT !.to[role] = Tail(@),
                   !.read[role] = Append(@, Head(stream.to[role]))]

Failed(h, step, cause) ==
    [h EXCEPT !.pc = "Done", !.err = Error("handshake", cause), !.steps = Append(@, step)]

\* The keys no end has generated yet.
FreshKeys == RsaKeys \ {handshakers[role].rsaKey : role \in Roles}

\* Handshake, lines 38-52: the key is generated and its public key is sent
\* in a signed frame.
HandshakeSendInit ==
    LET h == handshakers[Initiator]
    IN  /\ h.pc = "SendInit"
        /\ \E rsaKey \in FreshKeys :
              LET frame == signAndAppendSignature(h.signVerifier,
                                                  writePubKey(h.buf, rsaKey))
              IN  /\ rw' = Write(rw, Initiator, frame)
                  /\ handshakers' = [handshakers EXCEPT ![Initiator] =
                         [h EXCEPT !.pc = "RecvChallenge", !.rsaKey = rsaKey, !.buf = <<>>,
                                   !.steps = Append(@, "SendInit")]]
        /\ UNCHANGED <<inMemCache, table, groups, updates, written, sampled, extVars,
                       store, messages, events, calls, received, delivered>>

\* Handshake, lines 54-64: the responder's frame is verified, and the
\* challenge and the responder's public key are read from it.
HandshakeRecvChallenge ==
    LET h == handshakers[Initiator]
    IN  /\ h.pc = "RecvChallenge"
        /\ rw.to[Initiator] # <<>>
        /\ rw' = Read(rw, Initiator)
        /\ LET verified == verifyAndStripSignature(h.signVerifier,
                                                   Head(rw.to[Initiator]), h.buf)
               challenge == readChallenge(verified.buf, h.rsaKey)
               pubKey == readPubKey(challenge.buf)
           IN  handshakers' = [handshakers EXCEPT ![Initiator] =
                   IF ~verified.ok THEN Failed(h, "RecvChallenge", "verify")
                   ELSE IF ~challenge.ok THEN Failed(h, "RecvChallenge", "readChallenge")
                   ELSE IF ~pubKey.ok THEN Failed(h, "RecvChallenge", "readPubKey")
                   ELSE [h EXCEPT !.pc = "SendReply", !.challenge = challenge.challenge,
                                  !.pubKey = pubKey.pubKey, !.buf = pubKey.buf,
                                  !.steps = Append(@, "RecvChallenge")]]
        /\ UNCHANGED <<inMemCache, table, groups, updates, written, sampled, extVars,
                       store, messages, events, calls, received, delivered>>

\* The reply encrypted for the initiator's own key.
ReplyKeyOwn(h) == h.rsaKey

\* Handshake, line 67: the reply is encrypted for the responder's key.
ReplyKey(h) == h.pubKey

\* Handshake, lines 67-74: the challenge is sent back in a signed frame.
HandshakeSendReply ==
    LET h == handshakers[Initiator]
    IN  /\ h.pc = "SendReply"
        /\ LET frame == signAndAppendSignature(h.signVerifier,
                            writeChallenge(h.buf, h.challenge, ReplyKey(h)))
           IN  /\ rw' = Write(rw, Initiator, frame)
               /\ handshakers' = [handshakers EXCEPT ![Initiator] =
                      [h EXCEPT !.pc = "Done", !.buf = <<>>, !.err = NoError,
                                !.steps = Append(@, "SendReply")]]
        /\ UNCHANGED <<inMemCache, table, groups, updates, written, sampled, extVars,
                       store, messages, events, calls, received, delivered>>

\* AcceptHandshake, lines 77-91: the key is generated, the initiator's
\* frame is verified and its public key is read.
AcceptHandshakeRecvInit ==
    LET h == handshakers[Responder]
    IN  /\ h.pc = "RecvInit"
        /\ rw.to[Responder] # <<>>
        /\ rw' = Read(rw, Responder)
        /\ \E rsaKey \in FreshKeys :
              LET verified == verifyAndStripSignature(h.signVerifier,
                                                      Head(rw.to[Responder]), h.buf)
                  pubKey == readPubKey(verified.buf)
                  keyed == [h EXCEPT !.rsaKey = rsaKey]
              IN  handshakers' = [handshakers EXCEPT ![Responder] =
                      IF ~verified.ok THEN Failed(keyed, "RecvInit", "verify")
                      ELSE IF ~pubKey.ok THEN Failed(keyed, "RecvInit", "readPubKey")
                      ELSE [keyed EXCEPT !.pc = "SendChallenge", !.pubKey = pubKey.pubKey,
                                         !.buf = pubKey.buf,
                                         !.steps = Append(@, "RecvInit")]]
        /\ UNCHANGED <<inMemCache, table, groups, updates, written, sampled, extVars,
                       store, messages, events, calls, received, delivered>>

\* AcceptHandshake, lines 94-104: a random challenge encrypted for the
\* initiator's key and the responder's public key are sent in a signed frame.
AcceptHandshakeSendChallenge ==
    LET h == handshakers[Responder]
    IN  /\ h.pc = "SendChallenge"
        /\ \E challenge \in Challenges :
              LET frame == signAndAppendSignature(h.signVerifier,
                               writePubKey(writeChallenge(h.buf, challenge, h.pubKey),
                                           h.rsaKey))
              IN  /\ rw' = Write(rw, Responder, frame)
                  /\ handshakers' = [handshakers EXCEPT ![Responder] =
                         [h EXCEPT !.pc = "RecvReply", !.challenge = challenge, !.buf = <<>>,
                                   !.steps = Append(@, "SendChallenge")]]
        /\ UNCHANGED <<inMemCache, table, groups, updates, written, sampled, extVars,
                       store, messages, events, calls, received, delivered>>

\* A reply taken whatever challenge it carries.
ChallengeUnchecked(challenge, replyChallenge) == TRUE

\* AcceptHandshake, line 115
ChallengeMatches(challenge, replyChallenge) == challenge = replyChallenge

\* AcceptHandshake, lines 107-118: the reply is verified, its challenge is
\* read and compared with the challenge sent.
AcceptHandshakeRecvReply ==
    LET h == handshakers[Responder]
    IN  /\ h.pc = "RecvReply"
        /\ rw.to[Responder] # <<>>
        /\ rw' = Read(rw, Responder)
        /\ LET verified == verifyAndStripSignature(h.signVerifier,
                                                   Head(rw.to[Responder]), h.buf)
               replyChallenge == readChallenge(verified.buf, h.rsaKey)
           IN  handshakers' = [handshakers EXCEPT ![Responder] =
                   IF ~verified.ok THEN Failed(h, "RecvReply", "verify")
                   ELSE IF ~replyChallenge.ok THEN Failed(h, "RecvReply", "readChallenge")
                   ELSE IF ~ChallengeMatches(h.challenge, replyChallenge.challenge)
                        THEN Failed(h, "RecvReply", "challenge")
                   ELSE [h EXCEPT !.pc = "Done", !.buf = replyChallenge.buf,
                                  !.err = NoError, !.steps = Append(@, "RecvReply")]]
        /\ UNCHANGED <<inMemCache, table, groups, updates, written, sampled, extVars,
                       store, messages, events, calls, received, delivered>>

\* The stream in the hands of an intruder, who signs as itself and knows
\* every key number and challenge: the payloads it can make.
Items == {[kind |-> "pubKey", key |-> k] : k \in RsaKeys}
             \cup {EncryptPKCS1v15(k, p) : k \in RsaKeys, p \in Plaintexts}

Payloads == SeqsUpTo(Items, MaxForged)

\* The frame on its way to `role` is changed: its data under the signature
\* it had, or the whole frame for one the intruder signs, or for a frame
\* written before.
Tamper(role) ==
    /\ rw.tampered < MaxTamper
    /\ rw.to[role] # <<>>
    /\ LET frame == Head(rw.to[role])
       IN  \E forged \in {[frame EXCEPT !.data = data, !.altered = TRUE] :
                              data \in Payloads \ {frame.data}}
                         \cup {Frame(data, Sign(Intruder, SignVerifierHash(data))) :
                                  data \in Payloads}
                         \cup {rw.written[i].frame : i \in DOMAIN rw.written} :
              /\ forged # frame
              /\ rw' = [rw EXCEPT !.to[role] = <<forged>> \o Tail(@),
                                  !.tampered = @ + 1]
    /\ UNCHANGED handshakers
    /\ UNCHANGED <<inMemCache, table, groups, updates, written, sampled, extVars,
                   store, messages, events, calls, received, delivered>>

(***************************************************************************)
(* Spec: one broadcaster over a directory that has been set up, with       *)
(* concurrent Broadcast and AcceptBroadcast calls.                         *)
(***************************************************************************)
\* The node of the single-node models: the first one.
Self == CHOOSE n \in Nodes : \A m \in Nodes : n <= m

Hashes == {Hash(NewMessage(v, "Broadcast", g, b)) : v \in Versions, g \in GroupIDs, b \in Bodies}
              \cup {Hash(NewMessage(v, "Cast", g, b)) : v \in Versions, g \in GroupIDs, b \in Bodies}

EmptyCache == [p \in PeerIDs |-> NilAddr]

EmptyTable == [p \in PeerIDs |-> NoData]

EmptyGroups == [g \in 1..MaxGroup |-> NoGroup]

\* The directories of the single-node model: what AddPeerAddress calls for
\* other peers and AddGroup calls leave behind on a new dht.
KnownAddress(p) == PeerAddress(p, 1, 1)

SetUpCaches == {cache \in [PeerIDs -> {NilAddr} \cup {KnownAddress(p) : p \in 1..MaxPeer}] :
                   \A p \in PeerIDs : cache[p] # NilAddr => cache[p].id = p /\ p # Self}

SetUpGroups == [1..MaxGroup -> {NoGroup} \cup {Group(ids) : ids \in SeqsUpTo(1..MaxPeer, MaxGroupLen)}]

TableOf(cache) == [p \in PeerIDs |-> Encode(cache[p])]

\* No list is held by a caller, no lock is held, no connection is open, no
\* frame is being verified, no ping has been announced.
NoSlices == [op |-> "none", groupID |-> NilGroupID, ids |-> <<>>, err |-> NoError]

NoLocks == [m \in {"groupsMu", "inMemCacheMu"} |-> [readers |-> {}, writer |-> {}, waiting |-> {}]]

NoConn == [pc |-> "none", open |-> FALSE, remoteAddr |-> 0, stream |-> <<>>, written |-> 0,
           ctxDone |-> FALSE, messageOtw |-> [From |-> 0, Message |-> NoMessage],
           reads |-> <<>>, sent |-> <<>>]

NoVerifying == [pc |-> "idle", header |-> FALSE, size |-> 0, r |-> <<>>, n |-> 0,
                readErr |-> FALSE, data |-> <<>>, w |-> <<>>, result |-> "none"]

NoPinged == [announced |-> 0, pongs |-> [n \in Nodes |-> 0], propagated |-> [n \in Nodes |-> 0]]

InitQuiet ==
    /\ store = [n \in Nodes |-> {}]
    /\ messages = [n \in Nodes |-> <<>>]
    /\ events = [n \in Nodes |-> <<>>]
    /\ calls = [c \in Slots |-> IdleCall]
    /\ delivered = [n \in Nodes |-> [h \in Hashes |-> 0]]
    /\ received = [n \in Nodes |-> [h \in Hashes |-> 0]]
    /\ updates = <<>>
    /\ written = [op |-> "none", peerAddr |-> NilAddr, prevPeerAddr |-> NilAddr,
                  storeFails |-> FALSE, err |-> NoError, changed |-> FALSE]
    /\ sampled = [called |-> FALSE, groupID |-> NilGroupID, n |-> 0, found |-> FALSE,
                  addrs |-> <<>>, randAddrs |-> <<>>, err |-> NoError]

InitIdle ==
    /\ InitQuiet
    /\ handshakers = NoHandshakers
    /\ rw = NoStream
    /\ slices = NoSlices
    /\ locks = NoLocks
    /\ conn = NoConn
    /\ verifying = NoVerifying
    /\ pinged = NoPinged

Init ==
    /\ InitIdle
    /\ \E cache \in SetUpCaches, gs \in SetUpGroups :
          /\ inMemCache = [n \in Nodes |-> IF n = Self THEN cache ELSE EmptyCache]
          /\ table = [n \in Nodes |-> IF n = Self THEN TableOf(cache) ELSE EmptyTable]
          /\ groups = [n \in Nodes |-> IF n = Self THEN gs ELSE EmptyGroups]

AcceptMessages ==
    {NewMessage(v, variant, g, b) :
        v \in Versions, variant \in {"Broadcast", "Cast"}, g \in GroupIDs, b \in Bodies}

Next ==
    \/ \E c \in CallIds, g \in GroupIDs, b \in Bodies, cancelled \in BOOLEAN :
          Broadcast(c, Self, g, b, cancelled)
    \/ \E c \in CallIds, from \in 1..MaxPeer, m \in AcceptMessages, cancelled \in BOOLEAN :
          AcceptBroadcast(c, Self, from, m, cancelled)
    \/ \E c \in CallIds : BroadcastSeen(c)
    \/ \E c \in CallIds : BroadcastGroupAddresses(c)
    \/ \E c \in CallIds : BroadcastCtx(c)
    \/ \E c \in CallIds : BroadcastInsert(c)
    \/ \E c \in CallIds : BroadcastSend(c)
    \/ \E c \in CallIds : AcceptSeen(c)
    \/ \E c \in CallIds : AcceptCtx(c)
    \/ \E c \in CallIds : AcceptEvent(c)
    \/ \E c \in CallIds : Cancel(c)
    \/ ReceiveMessage(Self)
    \/ ReceiveEvent(Self)

Spec == Init /\ [][Next]_vars

(***************************************************************************)
(* SpecNet: a network of broadcasters.  Every node knows the address of     *)
(* every other node and holds the same group of all nodes; the transport   *)
(* takes the frames of each outbound channel in order and hands each to    *)
(* AcceptBroadcast of its target, where the calls of different connections *)
(* overlap; no context is cancelled.                                       *)
(***************************************************************************)
NetGroupID == MaxGroup

NetGroup == [i \in 1..NumNodes |-> i]

NetMessage == NewMessage(V1, "Broadcast", NetGroupID, MaxBody)

InitNet ==
    /\ InitIdle
    /\ inMemCache = [n \in Nodes |-> [p \in PeerIDs |-> IF p = n THEN NilAddr ELSE Me(p)]]
    /\ table = [n \in Nodes |-> TableOf(inMemCache[n])]
    /\ groups = [n \in Nodes |->
                    [g \in 1..MaxGroup |-> IF g = NetGroupID THEN Group(NetGroup) ELSE NoGroup]]

\* Nothing has been broadcast yet.
Silent == /\ \A n \in Nodes : store[n] = {}
          /\ \A c \in Slots : calls[c].pc = "idle"

\* The originator broadcasts the message.
Originate(c) ==
    /\ Silent
    /\ Broadcast(c, Self, NetMessage.groupID, NetMessage.body, FALSE)

\* The transport hands the next frame of node n's outbound channel to its
\* target, which accepts it in a call of its own.
Deliver(c, n) ==
    /\ messages[n] # <<>>
    /\ FreeSlot(c)
    /\ LET wire == Head(messages[n])
           to == wire.To.id
       IN  /\ calls' = [calls EXCEPT ![c] = AcceptCall(to, n, wire.Message, FALSE)]
           /\ delivered' = [delivered EXCEPT ![to][Hash(wire.Message)] = Bump(@)]
    /\ messages' = [messages EXCEPT ![n] = Tail(@)]
    /\ UNCHANGED <<dhtVars, store, events, received>>

\* The caller takes the result of a call that has returned.
Return(c) ==
    /\ calls[c].pc = "done"
    /\ calls' = [calls EXCEPT ![c] = IdleCall]
    /\ UNCHANGED <<dhtVars, store, messages, events, received, delivered>>

NextNet ==
    \/ \E c \in Slots : Originate(c)
    \/ \E c \in Slots, n \in Nodes : Deliver(c, n)
    \/ \E c \in Slots : BroadcastSeen(c)
    \/ \E c \in Slots : BroadcastGroupAddresses(c)
    \/ \E c \in Slots : BroadcastCtx(c)
    \/ \E c \in Slots : BroadcastInsert(c)
    \/ \E c \in Slots : BroadcastSend(c)
    \/ \E c \in Slots : AcceptSeen(c)
    \/ \E c \in Slots : AcceptCtx(c)
    \/ \E c \in Slots : AcceptEvent(c)
    \/ \E c \in Slots : Return(c)
    \/ \E n \in Nodes : ReceiveEvent(n)

SpecNet == InitNet /\ [][NextNet]_vars

(***************************************************************************)
(* dht: the writes of the directory.  Each runs under the lock of the      *)
(* peer index, so each is one step.  A directory is the index together     *)
(* with the table behind it; the table's write may fail.                   *)
(***************************************************************************)
Directory(n) == [cache |-> inMemCache[n], table |-> table[n]]

\* An insert that writes the index whatever the table says.
addPeerAddressIndexFirst(dir, peerAddr, storeFails) ==
    [cache |-> [dir.cache EXCEPT ![peerAddr.id] = peerAddr],
     table |-> IF storeFails THEN dir.table
               ELSE [dir.table EXCEPT ![peerAddr.id] = Encode(peerAddr)],
     err |-> IF storeFails THEN Error("ErrInsert", "store") ELSE NoError]

\* dht.addPeerAddressWithoutLock: the directory after it, and its error.
addPeerAddressWithoutLock(dir, peerAddr, storeFails) ==
    IF storeFails
    THEN [cache |-> dir.cache, table |-> dir.table, err |-> Error("ErrInsert", "store")]
    ELSE [cache |-> [dir.cache EXCEPT ![peerAddr.id] = peerAddr],
          table |-> [dir.table EXCEPT ![peerAddr.id] = Encode(peerAddr)],
          err |-> NoError]

\* An update that writes whatever address it is given.
UpdatedPeerAddressUnchecked(dir, peerAddr, storeFails) ==
    LET added == addPeerAddressWithoutLock(dir, peerAddr, storeFails)
    IN  [cache |-> added.cache, table |-> added.table,
         didUpdate |-> added.err = NoError, err |-> added.err]

\* dht.UpdatePeerAddress: the directory after it, and what it returns.
UpdatedPeerAddress(dir, peerAddr, storeFails) ==
    LET prevPeerAddr == dir.cache[peerAddr.id]
        ok == prevPeerAddr # NilAddr
        added == addPeerAddressWithoutLock(dir, peerAddr, storeFails)
    IN  IF ok /\ ~IsNewer(peerAddr, prevPeerAddr)
        THEN [cache |-> dir.cache, table |-> dir.table, didUpdate |-> FALSE, err |-> NoError]
        ELSE [cache |-> added.cache, table |-> added.table,
              didUpdate |-> added.err = NoError, err |-> added.err]

\* dht.addBootstrapNodes on the directory that dht.New has filled from the
\* table: every address but self's goes through UpdatePeerAddress.
RECURSIVE addBootstrapNodes(_, _, _)
addBootstrapNodes(n, dir, addrs) ==
    IF addrs = <<>> THEN dir
    ELSE LET addr == Head(addrs)
             updated == UpdatedPeerAddress(dir, addr, FALSE)
         IN  IF addr.id = Me(n).id THEN addBootstrapNodes(n, dir, Tail(addrs))
             ELSE addBootstrapNodes(n, [cache |-> updated.cache, table |-> updated.table],
                                    Tail(addrs))

AddPeerAddress(n, peerAddr, storeFails) ==
    /\ LET added == addPeerAddressWithoutLock(Directory(n), peerAddr, storeFails)
       IN  /\ inMemCache' = [inMemCache EXCEPT ![n] = added.cache]
           /\ table' = [table EXCEPT ![n] = added.table]
    /\ UNCHANGED <<groups, store, messages, events, calls, received, delivered>>

UpdatePeerAddress(n, peerAddr, storeFails) ==
    /\ LET updated == UpdatedPeerAddress(Directory(n), peerAddr, storeFails)
       IN  /\ inMemCache' = [inMemCache EXCEPT ![n] = updated.cache]
           /\ table' = [table EXCEPT ![n] = updated.table]
    /\ UNCHANGED <<groups, store, messages, events, calls, received, delivered>>

\* dht.RemovePeerAddress: the directory after it, and its error.
RemovedPeerAddress(dir, id, storeFails) ==
    IF storeFails
    THEN [cache |-> dir.cache, table |-> dir.table, err |-> Error("ErrDelete", "store")]
    ELSE [cache |-> [dir.cache EXCEPT ![id] = NilAddr],
          table |-> [dir.table EXCEPT ![id] = NoData],
          err |-> NoError]

RemovePeerAddress(n, id, storeFails) ==
    /\ LET removed == RemovedPeerAddress(Directory(n), id, storeFails)
       IN  /\ inMemCache' = [inMemCache EXCEPT ![n] = removed.cache]
           /\ table' = [table EXCEPT ![n] = removed.table]
    /\ UNCHANGED <<groups, store, messages, events, calls, received, delivered>>

(***************************************************************************)
(* pingPonger                                                              *)
(***************************************************************************)
\* ctx.Err() of a cancelled context.
CtxErr == Error("Canceled", Canceled)

PingMessage(variant, body) == NewMessage(V1, variant, NilGroupID, body)

\* A start that goes on to add whatever address it has decoded and found an
\* entry for.
AcceptCallPingPongUnchecked(op, n, message, cancelled) ==
    LET call == [IdleCall EXCEPT !.op = op, !.node = n,
                                 !.ctxDone = cancelled, !.cancelledAtCall = cancelled,
                                 !.message = message, !.after = Returned]
        peerAddr == Decode(message.body)
        prev == PeerAddressOf(n, peerAddr.id)
        decoded == [call EXCEPT !.peerAddr = peerAddr, !.prevPeerAddr = prev.addr]
    IN  IF ~Decodes(message.body) THEN Done(call, Error("ErrDecode", ""))
        ELSE IF prev.err # NoError THEN Done(decoded, prev.err)
        ELSE [decoded EXCEPT !.pc = "add"]

\* The start of AcceptPing and AcceptPong: the body is decoded (lines 69 and
\* 92) and updatePeerAddress looks the previous address up (lines 160-169).
AcceptCallPingPong(op, n, message, cancelled) ==
    LET call == [IdleCall EXCEPT !.op = op, !.node = n,
                                 !.ctxDone = cancelled, !.cancelledAtCall = cancelled,
                                 !.message = message, !.after = Returned]
        peerAddr == Decode(message.body)
        prev == PeerAddressOf(n, peerAddr.id)
        decoded == [call EXCEPT !.peerAddr = peerAddr, !.prevPeerAddr = prev.addr]
    IN  IF ~Decodes(message.body) THEN Done(call, Error("ErrDecode", ""))
        ELSE IF prev.err # NoError THEN Done(decoded, prev.err)
        ELSE IF ~IsNewer(peerAddr, prev.addr) THEN Done(decoded, NoError)
        ELSE [decoded EXCEPT !.pc = "add"]

AcceptPing(c, n, message, cancelled) ==
    /\ FreeSlot(c)
    /\ calls' = [calls EXCEPT ![c] = AcceptCallPingPong("AcceptPing", n, message, cancelled)]
    /\ UNCHANGED <<dhtVars, store, messages, events, received, delivered>>

AcceptPong(c, n, message, cancelled) ==
    /\ FreeSlot(c)
    /\ calls' = [calls EXCEPT ![c] = AcceptCallPingPong("AcceptPong", n, message, cancelled)]
    /\ UNCHANGED <<dhtVars, store, messages, events, received, delivered>>

\* A handler that goes on to its event without writing the directory.
UpdateAddSkipped(c, storeFails) ==
    /\ calls[c].pc = "add"
    /\ calls' = [calls EXCEPT ![c] = [@ EXCEPT !.inserted = TRUE, !.pc = "event"]]
    /\ UNCHANGED <<dhtVars, store, messages, events, received, delivered>>

\* updatePeerAddress, lines 170-172: the address is added to the directory.
UpdateAdd(c, storeFails) ==
    /\ calls[c].pc = "add"
    /\ LET call == calls[c]
           n == call.node
           added == addPeerAddressWithoutLock(Directory(n), call.peerAddr, storeFails)
       IN  /\ inMemCache' = [inMemCache EXCEPT ![n] = added.cache]
           /\ table' = [table EXCEPT ![n] = added.table]
           /\ calls' = [calls EXCEPT ![c] =
                           IF added.err # NoError THEN Done(call, added.err)
                           ELSE [call EXCEPT !.inserted = TRUE, !.pc = "event"]]
    /\ UNCHANGED <<groups, updates, written, sampled, hsVars, extVars, store, messages, events, received,
                   delivered>>

\* updatePeerAddress, lines 174-183: the event is sent, or the context is done.
UpdateEvent(c) ==
    /\ calls[c].pc = "event"
    /\ LET call == calls[c]
           n == call.node
           event == EventPeerChanged(call.peerAddr)
       IN  \E case \in SelectReady(call.ctxDone, Len(events[n]), EventCap) :
               IF case = "send"
               THEN /\ events' = [events EXCEPT ![n] = Append(@, event)]
                    /\ calls' = [calls EXCEPT ![c] =
                           LET sent == [call EXCEPT !.emitted = Append(@, event)]
                           IN  IF call.op = "AcceptPong" THEN Done(sent, NoError)
                               ELSE [sent EXCEPT !.pc = "pong"]]
               ELSE /\ calls' = [calls EXCEPT ![c] = Done(call, CtxErr)]
                    /\ UNCHANGED events
    /\ UNCHANGED <<dhtVars, store, messages, received, delivered>>

\* A pong that carries the address it answers.
PongWireEcho(n, to) ==
    MessageOnTheWire(NetworkAddress(to), PingMessage("Pong", Encode(to)))

\* The frame of pingPonger.pong, lines 109-116: self's address, sent to `to`.
PongWire(n, to) ==
    MessageOnTheWire(NetworkAddress(to), PingMessage("Pong", Encode(Me(n))))

\* pingPonger.pong (lines 106-123), called at line 80.
Pong(c) ==
    /\ calls[c].pc = "pong"
    /\ LET call == calls[c]
           n == call.node
           wire == PongWire(n, call.peerAddr)
       IN  \E case \in SelectReady(call.ctxDone, Len(messages[n]), QueueCap) :
               IF case = "send"
               THEN /\ messages' = [messages EXCEPT ![n] = Append(@, wire)]
                    /\ calls' = [calls EXCEPT ![c] =
                           [call EXCEPT !.frames = Append(@, wire), !.pc = "peerAddresses"]]
               ELSE /\ calls' = [calls EXCEPT ![c] = Done(call, CtxErr)]
                    /\ UNCHANGED messages
    /\ UNCHANGED <<dhtVars, store, events, received, delivered>>

\* propagatePing, lines 128-137: the peer addresses to propagate to.
PropagatePeerAddresses(c) ==
    /\ calls[c].pc = "peerAddresses"
    /\ LET call == calls[c]
       IN  \E peerAddrs \in PeerAddresses(call.node) :
               calls' = [calls EXCEPT ![c] =
                   IF Len(peerAddrs) <= 0
                   THEN Done(call, Error("empty peer addresses", ""))
                   ELSE [call EXCEPT !.addrs = peerAddrs, !.pending = DOMAIN peerAddrs,
                                     !.known = Range(peerAddrs), !.pc = "propagate"]]
    /\ UNCHANGED <<dhtVars, store, messages, events, received, delivered>>

\* A send that clears the error of the turns before it.
SentClearsErr(call, wire, i) ==
    [call EXCEPT !.frames = Append(@, wire), !.pending = @ \ {i}, !.err = NoError]

\* propagatePing, line 149: the frame is sent; err stays as it was.
Sent(call, wire, i) == [call EXCEPT !.frames = Append(@, wire), !.pending = @ \ {i}]

\* propagatePing, lines 141-154: one turn of the loop, which goes on when the
\* context is done, and the return of the last error after the last turn.
PropagateSend(c) ==
    /\ calls[c].pc = "propagate"
    /\ LET call == calls[c]
           n == call.node
           i == CHOOSE j \in call.pending : \A k \in call.pending : j <= k
           wire == MessageOnTheWire(NetworkAddress(call.addrs[i]),
                                    PingMessage("Ping", call.message.body))
           Turned(next) == IF next.pending = {} THEN Done(next, next.err) ELSE next
       IN  \E case \in SelectReady(call.ctxDone, Len(messages[n]), QueueCap) :
               IF case = "send"
               THEN /\ messages' = [messages EXCEPT ![n] = Append(@, wire)]
                    /\ calls' = [calls EXCEPT ![c] = Turned(Sent(call, wire, i))]
               ELSE /\ calls' = [calls EXCEPT ![c] =
                           Turned([call EXCEPT !.err = CtxErr, !.pending = @ \ {i}])]
                    /\ UNCHANGED messages
    /\ UNCHANGED <<dhtVars, store, events, received, delivered>>

\* pingPonger.Ping, lines 39-54: the address of the peer is looked up.
Ping(c, n, to, cancelled) ==
    /\ FreeSlot(c)
    /\ LET call == [IdleCall EXCEPT !.op = "Ping", !.node = n,
                                    !.ctxDone = cancelled, !.cancelledAtCall = cancelled,
                                    !.after = Returned]
           found == PeerAddressOf(n, to)
       IN  calls' = [calls EXCEPT ![c] =
               IF found.err # NoError THEN Done(call, found.err)
               ELSE [call EXCEPT !.peerAddr = found.addr, !.pc = "ping"]]
    /\ UNCHANGED <<dhtVars, store, messages, events, received, delivered>>

\* pingPonger.Ping, lines 56-61.
PingSend(c) ==
    /\ calls[c].pc = "ping"
    /\ LET call == calls[c]
           n == call.node
           wire == MessageOnTheWire(NetworkAddress(call.peerAddr),
                                    PingMessage("Ping", Encode(Me(n))))
       IN  \E case \in SelectReady(call.ctxDone, Len(messages[n]), QueueCap) :
               IF case = "send"
               THEN /\ messages' = [messages EXCEPT ![n] = Append(@, wire)]
                    /\ calls' = [calls EXCEPT ![c] =
                           Done([call EXCEPT !.frames = Append(@, wire)], NoError)]
               ELSE /\ calls' = [calls EXCEPT ![c] = Done(call, CtxErr)]
                    /\ UNCHANGED messages
    /\ UNCHANGED <<dhtVars, store, events, received, delivered>>

(***************************************************************************)
(* SpecDir: the directory of one node, new from dht.New with an empty      *)
(* table, under calls of its writers, with the history of the latest      *)
(* UpdatePeerAddress calls.                                                *)
(***************************************************************************)
\* The addresses the callers and the peers come up with.
GivenAddresses == {PeerAddress(p, a, k) : p \in 1..MaxPeer, a \in 1..MaxNet, k \in 1..MaxNonce}

InitDHT ==
    /\ InitIdle
    /\ groups = [n \in Nodes |-> EmptyGroups]
    /\ \E bootstrapAddrs \in SeqsUpTo(GivenAddresses, MaxBootstrap) :
          LET dir == addBootstrapNodes(Self, [cache |-> EmptyCache, table |-> EmptyTable],
                                       bootstrapAddrs)
          IN  /\ inMemCache = [n \in Nodes |-> IF n = Self THEN dir.cache ELSE EmptyCache]
              /\ table = [n \in Nodes |-> IF n = Self THEN dir.table ELSE EmptyTable]

\* The call added to the history, which keeps the latest two.
Latest(log, entry) == IF Len(log) < 2 THEN Append(log, entry) ELSE <<log[Len(log)], entry>>

\* What the history keeps of an UpdatePeerAddress call: the address given,
\* the address stored before, and what the call returned.
UpdateCalled(n, peerAddr, storeFails) ==
    LET updated == UpdatedPeerAddress(Directory(n), peerAddr, storeFails)
    IN  [peerAddr |-> peerAddr, prevPeerAddr |-> inMemCache[n][peerAddr.id],
         didUpdate |-> updated.didUpdate, err |-> updated.err]

\* What the history keeps of a writer's call: the arguments, the address
\* stored before, the error returned, and whether index or table changed.
WriterCalled(op, n, peerAddr, storeFails, err) ==
    [op |-> op, peerAddr |-> peerAddr, prevPeerAddr |-> inMemCache[n][peerAddr.id],
     storeFails |-> storeFails, err |-> err,
     changed |-> inMemCache'[n] # inMemCache[n] \/ table'[n] # table[n]]

NextDir ==
    \/ \E a \in GivenAddresses, storeFails \in BOOLEAN :
          /\ AddPeerAddress(Self, a, storeFails)
          /\ updates' = <<>>
          /\ UNCHANGED <<sampled, hsVars, extVars>>
          /\ written' = WriterCalled("AddPeerAddress", Self, a, storeFails,
                            addPeerAddressWithoutLock(Directory(Self), a, storeFails).err)
    \/ \E a \in GivenAddresses, storeFails \in BOOLEAN :
          /\ UpdatePeerAddress(Self, a, storeFails)
          /\ updates' = Latest(updates, UpdateCalled(Self, a, storeFails))
          /\ UNCHANGED <<sampled, hsVars, extVars>>
          /\ written' = WriterCalled("UpdatePeerAddress", Self, a, storeFails,
                            UpdatedPeerAddress(Directory(Self), a, storeFails).err)
    \/ \E p \in 1..MaxPeer, storeFails \in BOOLEAN :
          /\ RemovePeerAddress(Self, p, storeFails)
          /\ updates' = <<>>
          /\ UNCHANGED <<sampled, hsVars, extVars>>
          /\ written' = WriterCalled("RemovePeerAddress", Self, PeerAddress(p, 0, 0), storeFails,
                            RemovedPeerAddress(Directory(Self), p, storeFails).err)

SpecDir == InitDHT /\ [][NextDir]_vars

(***************************************************************************)
(* SpecDHT: one node's directory, new from dht.New with an empty table,    *)
(* under its writers and the pingPonger's calls.                           *)
(***************************************************************************)
\* The bodies of the pings and pongs that arrive: addresses, and one that
\* does not decode.
GivenBodies == {Encode(a) : a \in GivenAddresses} \cup {NoData}

\* The slots of the pingPonger's calls.
Handlers == {c \in Slots : c <= MaxHandlers}

NextDHT ==
    \/ \E a \in GivenAddresses, storeFails \in BOOLEAN :
          AddPeerAddress(Self, a, storeFails) /\ UNCHANGED <<updates, written, sampled, hsVars, extVars>>
    \/ \E a \in GivenAddresses, storeFails \in BOOLEAN :
          UpdatePeerAddress(Self, a, storeFails) /\ UNCHANGED <<updates, written, sampled, hsVars, extVars>>
    \/ \E p \in 1..MaxPeer, storeFails \in BOOLEAN :
          RemovePeerAddress(Self, p, storeFails) /\ UNCHANGED <<updates, written, sampled, hsVars, extVars>>
    \/ \E c \in Handlers, body \in GivenBodies :
          AcceptPing(c, Self, PingMessage("Ping", body), FALSE)
    \/ \E c \in Handlers, body \in GivenBodies :
          AcceptPong(c, Self, PingMessage("Pong", body), FALSE)
    \/ \E c \in Handlers, to \in 1..MaxPeer : Ping(c, Self, to, FALSE)
    \/ \E c \in Handlers, storeFails \in BOOLEAN : UpdateAdd(c, storeFails)
    \/ \E c \in Handlers : UpdateEvent(c)
    \/ \E c \in Handlers : Pong(c)
    \/ \E c \in Handlers : PropagatePeerAddresses(c)
    \/ \E c \in Handlers : PropagateSend(c)
    \/ \E c \in Handlers : PingSend(c)
    \/ \E c \in Handlers : Cancel(c)
    \/ ReceiveMessage(Self)
    \/ ReceiveEvent(Self)

SpecDHT == InitDHT /\ [][NextDHT]_vars

(***************************************************************************)
(* SpecGroup: the groups of one node's directory, which has been set up,   *)
(* under AddGroup, RemoveGroup and RandomPeerAddresses.                    *)
(***************************************************************************)
\* The directory operation the caller has made last, with what it returned.
Called(op, groupID, ids, err) == [op |-> op, groupID |-> groupID, ids |-> ids, err |-> err]

\* dht.AddGroup: the nil id is refused, any other id gets the list.
AddGroup(n, id, ids) ==
    /\ groups' = IF id = NilGroupID THEN groups
                 ELSE [groups EXCEPT ![n][id] = Group(ids)]
    /\ slices' = Called("AddGroup", id, ids,
                        IF id = NilGroupID THEN Error("ErrInvalidGroupID", "") ELSE NoError)
    /\ UNCHANGED <<inMemCache, table, updates, written, sampled, hsVars, locks, conn, verifying, pinged,
                   store, messages, events, calls, received, delivered>>

\* dht.RemoveGroup
RemoveGroup(n, id) ==
    /\ groups' = IF id = NilGroupID THEN groups
                 ELSE [groups EXCEPT ![n][id] = NoGroup]
    /\ slices' = Called("RemoveGroup", id, <<>>, NoError)
    /\ UNCHANGED <<inMemCache, table, updates, written, sampled, hsVars, locks, conn, verifying, pinged,
                   store, messages, events, calls, received, delivered>>

\* dht.GroupIDs: the caller gets a copy of the list (lines 405-406), or for
\* the nil id the ids of the stored addresses.
CallGroupIDs(n, groupID) ==
    /\ \E got \in IF groupID = NilGroupID
                   THEN {[ids |-> [i \in DOMAIN addrs |-> addrs[i].id], err |-> NoError] :
                            addrs \in PeerAddresses(n)}
                   ELSE {GroupIDsOf(n, groupID)} :
          slices' = Called("GroupIDs", groupID, got.ids, got.err)
    /\ UNCHANGED <<inMemCache, table, groups, updates, written, sampled, hsVars, locks, conn, verifying, pinged,
                   store, messages, events, calls, received, delivered>>

\* The caller writes id into position i of the list GroupIDs returned to it:
\* the list is a copy, so the caller's list alone changes.
MutateReturned(i, id) ==
    /\ slices.op \in {"GroupIDs", "mutate returned"}
    /\ i \in DOMAIN slices.ids
    /\ slices.ids[i] # id
    /\ slices' = [slices EXCEPT !.op = "mutate returned", !.ids[i] = id]
    /\ UNCHANGED <<inMemCache, table, groups, updates, written, sampled, hsVars, locks, conn, verifying, pinged,
                   store, messages, events, calls, received, delivered>>

\* The caller writes id into position i of the list it passed to AddGroup:
\* line 381 stores the caller's slice, not a copy, so the group's list is
\* the same array and changes with it.
MutatePassed(n, groupID, i, id) ==
    /\ groupID # NilGroupID
    /\ groups[n][groupID].ok
    /\ i \in DOMAIN groups[n][groupID].ids
    /\ groups[n][groupID].ids[i] # id
    /\ groups' = [groups EXCEPT ![n][groupID].ids[i] = id]
    /\ slices' = Called("mutate passed", groupID, groups'[n][groupID].ids, NoError)
    /\ UNCHANGED <<inMemCache, table, updates, written, sampled, hsVars, locks, conn, verifying, pinged,
                   store, messages, events, calls, received, delivered>>

\* A sample whose indexes are drawn one by one, with replacement.
RandomPeerAddressesWithReplacement(n, groupID, k) ==
    UNION {IF got.err # NoError
           THEN {[addrs |-> <<>>, randAddrs |-> <<>>, err |-> got.err]}
           ELSE {[addrs |-> got.addrs,
                  randAddrs |-> [i \in 1..Min(k, Len(got.addrs)) |-> got.addrs[indexes[i]]],
                  err |-> NoError] :
                     indexes \in [DOMAIN got.addrs -> DOMAIN got.addrs]} :
           got \in GroupAddresses(n, groupID)}

\* dht.RandomPeerAddresses: the first min(k, len(addrs)) addresses of the
\* group under a permutation of their indexes; the results it may give.
RandomPeerAddressesOf(n, groupID, k) ==
    UNION {IF got.err # NoError
           THEN {[addrs |-> <<>>, randAddrs |-> <<>>, err |-> got.err]}
           ELSE {[addrs |-> got.addrs,
                  randAddrs |-> [i \in 1..Min(k, Len(got.addrs)) |-> got.addrs[indexes[i]]],
                  err |-> NoError] :
                     indexes \in Orders(DOMAIN got.addrs)} :
           got \in GroupAddresses(n, groupID)}

RandomPeerAddresses(n, groupID, k) ==
    /\ \E result \in RandomPeerAddressesOf(n, groupID, k) :
          sampled' = [called |-> TRUE, groupID |-> groupID, n |-> k,
                      found |-> groupID = NilGroupID \/ groups[n][groupID].ok,
                      addrs |-> result.addrs, randAddrs |-> result.randAddrs,
                      err |-> result.err]
    /\ UNCHANGED <<inMemCache, table, groups, updates, written, hsVars, extVars,
                   store, messages, events, calls, received, delivered>>

NextGroup ==
    \/ \E id \in GroupIDs, ids \in SeqsUpTo(1..MaxPeer, MaxGroupLen) : AddGroup(Self, id, ids)
    \/ \E id \in GroupIDs : RemoveGroup(Self, id)
    \/ \E id \in GroupIDs, k \in 0..MaxSample : RandomPeerAddresses(Self, id, k)
    \/ \E id \in GroupIDs : CallGroupIDs(Self, id)
    \/ \E i \in 1..MaxGroupLen, id \in 1..MaxPeer : MutateReturned(i, id)
    \/ \E g \in GroupIDs, i \in 1..MaxGroupLen, id \in 1..MaxPeer : MutatePassed(Self, g, i, id)
    \/ \E a \in {KnownAddress(p) : p \in 1..MaxPeer} :
          /\ AddPeerAddress(Self, a, FALSE)
          /\ slices' = Called("AddPeerAddress", NilGroupID, <<>>, NoError)
          /\ UNCHANGED <<updates, written, sampled, hsVars, locks, conn, verifying, pinged>>
    \/ \E p \in 1..MaxPeer :
          /\ RemovePeerAddress(Self, p, FALSE)
          /\ slices' = Called("RemovePeerAddress", NilGroupID, <<>>, NoError)
          /\ UNCHANGED <<updates, written, sampled, hsVars, locks, conn, verifying, pinged>>

SpecGroup == Init /\ [][NextGroup]_vars

(***************************************************************************)
(* caster                                                                  *)
(***************************************************************************)
\* newErrCasting(to, ctx.Err())
ErrCasting(to, cause) == [kind |-> "ErrCasting", cause |-> cause, PeerID |-> to]

\* The frame of caster.Cast, lines 32-35.
CastWire(to, body) == MessageOnTheWire(to, NewMessage(V1, "Cast", NilGroupID, body))

\* caster.Cast: the call and the frame it builds.
Cast(c, n, to, body, cancelled) ==
    /\ FreeSlot(c)
    /\ calls' = [calls EXCEPT ![c] =
           [IdleCall EXCEPT !.op = "Cast", !.node = n, !.pc = "cast",
                            !.ctxDone = cancelled, !.cancelledAtCall = cancelled,
                            !.to = to, !.sending = CastWire(to, body).Message,
                            !.after = Returned]]
    /\ UNCHANGED <<dhtVars, store, messages, events, received, delivered>>

\* caster.Cast, lines 36-41: the frame is sent, or the context is done.
CastSend(c) ==
    /\ calls[c].pc = "cast"
    /\ LET call == calls[c]
           n == call.node
           wire == MessageOnTheWire(call.to, call.sending)
       IN  \E case \in SelectReady(call.ctxDone, Len(messages[n]), QueueCap) :
               IF case = "send"
               THEN /\ messages' = [messages EXCEPT ![n] = Append(@, wire)]
                    /\ calls' = [calls EXCEPT ![c] =
                           Done([call EXCEPT !.frames = Append(@, wire)], NoError)]
               ELSE /\ calls' = [calls EXCEPT ![c] = Done(call, ErrCasting(call.to, Canceled))]
                    /\ UNCHANGED messages
    /\ UNCHANGED <<dhtVars, store, events, received, delivered>>

\* caster.AcceptCast, lines 47-52: the pre-condition checks.
AcceptCast(c, n, message, cancelled) ==
    /\ FreeSlot(c)
    /\ LET call == [IdleCall EXCEPT !.op = "AcceptCast", !.node = n,
                                    !.ctxDone = cancelled, !.cancelledAtCall = cancelled,
                                    !.message = message, !.after = Returned]
       IN  calls' = [calls EXCEPT ![c] =
               IF message.version # V1
               THEN Done(call, Error("ErrCastVersionNotSupported", ""))
               ELSE IF message.variant # "Cast"
               THEN Done(call, Error("ErrCastVariantNotSupported", ""))
               ELSE [call EXCEPT !.pc = "castEvent"]]
    /\ UNCHANGED <<dhtVars, store, messages, events, received, delivered>>

\* caster.AcceptCast, lines 54-63: the event is sent, or the context is done.
AcceptCastEvent(c) ==
    /\ calls[c].pc = "castEvent"
    /\ LET call == calls[c]
           n == call.node
           event == EventMessageReceived(call.message.body, 0)
       IN  \E case \in SelectReady(call.ctxDone, Len(events[n]), EventCap) :
               IF case = "send"
               THEN /\ events' = [events EXCEPT ![n] = Append(@, event)]
                    /\ calls' = [calls EXCEPT ![c] =
                           Done([call EXCEPT !.emitted = Append(@, event)], NoError)]
               ELSE /\ calls' = [calls EXCEPT ![c] =
                           Done(call, Error("ErrAcceptingCast", Canceled))]
                    /\ UNCHANGED events
    /\ UNCHANGED <<dhtVars, store, messages, received, delivered>>

(***************************************************************************)
(* SpecCast: one caster under concurrent Cast and AcceptCast calls.        *)
(***************************************************************************)
InitCast ==
    /\ InitIdle
    /\ inMemCache = [n \in Nodes |-> EmptyCache]
    /\ table = [n \in Nodes |-> EmptyTable]
    /\ groups = [n \in Nodes |-> EmptyGroups]

NextCast ==
    \/ \E c \in Slots, to \in 1..MaxPeer, body \in Bodies, cancelled \in BOOLEAN :
          Cast(c, Self, to, body, cancelled)
    \/ \E c \in Slots, m \in AcceptMessages, cancelled \in BOOLEAN :
          AcceptCast(c, Self, m, cancelled)
    \/ \E c \in Slots : CastSend(c)
    \/ \E c \in Slots : AcceptCastEvent(c)
    \/ \E c \in Slots : Cancel(c)
    \/ ReceiveMessage(Self)
    \/ ReceiveEvent(Self)

SpecCast == InitCast /\ [][NextCast]_vars

(***************************************************************************)
(* SpecHandshake: one Handshake call and one AcceptHandshake call on the   *)
(* two ends of a stream an intruder may change, between handshakers whose  *)
(* verifiers trust any of the signers.                                     *)
(***************************************************************************)
Handshakers(trusted) ==
    [role \in Roles |-> Handshaker(SignVerifier(role, trusted[role]),
                                   IF role = Initiator THEN "SendInit" ELSE "RecvInit")]

InitHandshake ==
    /\ InitQuiet
    /\ inMemCache = [n \in Nodes |-> EmptyCache]
    /\ table = [n \in Nodes |-> EmptyTable]
    /\ groups = [n \in Nodes |-> EmptyGroups]
    /\ rw = NoStream
    /\ slices = NoSlices
    /\ locks = NoLocks
    /\ conn = NoConn
    /\ verifying = NoVerifying
    /\ pinged = NoPinged
    /\ \E trusted \in [Roles -> SUBSET Signers] : handshakers = Handshakers(trusted)

NextHandshake ==
    \/ HandshakeSendInit
    \/ HandshakeRecvChallenge
    \/ HandshakeSendReply
    \/ AcceptHandshakeRecvInit
    \/ AcceptHandshakeSendChallenge
    \/ AcceptHandshakeRecvReply
    \/ \E role \in Roles : Tamper(role)

SpecHandshake == InitHandshake /\ [][NextHandshake]_vars

(***************************************************************************)
(* SpecHonest: the two calls between handshakers whose verifiers trust     *)
(* each other, on a stream that hands over every frame as it was written.  *)
(* Each call goes on whenever it can: it waits for nothing but the frame   *)
(* it reads.                                                               *)
(***************************************************************************)
InitHonest ==
    /\ InitHandshake
    /\ \A role \in Roles : Peer(role) \in handshakers[role].signVerifier.trusted

NextHonest ==
    \/ HandshakeSendInit
    \/ HandshakeRecvChallenge
    \/ HandshakeSendReply
    \/ AcceptHandshakeRecvInit
    \/ AcceptHandshakeSendChallenge
    \/ AcceptHandshakeRecvReply

SpecHonest == InitHonest /\ [][NextHonest]_vars /\ WF_vars(NextHonest)

(***************************************************************************)
(* SpecLocks: the operations of one node's directory as calls that take    *)
(* and release dht.groupsMu and dht.inMemCacheMu where the code does,      *)
(* beside Broadcast calls whose fan-out waits for the outbound queue.      *)
(* A call at "mu.RLock" or "mu.Lock" is about to take mu or is blocked in  *)
(* it; at "mu.RUnlock" or "mu.Unlock" it holds mu and runs the body that   *)
(* the deferred release ends.                                              *)
(***************************************************************************)
Mutexes == {"groupsMu", "inMemCacheMu"}

Pc == [groupsMu |-> [RLock |-> "groupsMu.RLock", RUnlock |-> "groupsMu.RUnlock",
                     Lock |-> "groupsMu.Lock", Unlock |-> "groupsMu.Unlock"],
       inMemCacheMu |-> [RLock |-> "inMemCacheMu.RLock", RUnlock |-> "inMemCacheMu.RUnlock",
                         Lock |-> "inMemCacheMu.Lock", Unlock |-> "inMemCacheMu.Unlock"]]

\* The calls that hold mu, as readers or as the writer.
Holders(mu) == locks[mu].readers \cup locks[mu].writer

Holds(c, mu) == c \in Holders(mu)

\* sync.RWMutex.  RLock waits while a writer holds the mutex or is blocked in
\* Lock; Lock announces itself and waits until nobody holds the mutex.
RLockReady(mu) == locks[mu].writer = {} /\ locks[mu].waiting = {}

RLocked(lk, mu, c) == [lk EXCEPT ![mu].readers = @ \cup {c}]

\* A release that is left out: the mutex stays read-locked by the call.
RUnlockedNever(lk, mu, c) == lk

RUnlocked(lk, mu, c) == [lk EXCEPT ![mu].readers = @ \ {c}]

LockPending(lk, mu, c) == [lk EXCEPT ![mu].waiting = @ \cup {c}]

LockReady(mu, c) == c \in locks[mu].waiting /\ Holders(mu) = {}

Locked(lk, mu, c) == [lk EXCEPT ![mu].writer = {c}, ![mu].waiting = @ \ {c}]

Unlocked(lk, mu, c) == [lk EXCEPT ![mu].writer = {}]

IndexReads == {"NumPeers", "PeerAddresses", "PeerAddress"}

IndexWrites == {"AddPeerAddress", "UpdatePeerAddress", "RemovePeerAddress"}

GroupReads == {"GroupIDs", "GroupAddresses", "RandomPeerAddresses"}

GroupWrites == {"AddGroup", "RemoveGroup"}

\* Where a directory operation starts: the first mutex it takes, if any.
Entry(op, groupID) ==
    CASE op \in IndexReads -> Pc.inMemCacheMu.RLock
      [] op \in IndexWrites -> Pc.inMemCacheMu.Lock
      [] op = "AddGroup" -> IF groupID = NilGroupID THEN "done" ELSE Pc.groupsMu.Lock
      [] op = "RemoveGroup" -> Pc.groupsMu.Lock
      [] op \in GroupReads -> IF groupID = NilGroupID THEN Pc.inMemCacheMu.RLock
                              ELSE Pc.groupsMu.RLock

\* A caller starts a directory operation.
DirectoryCall(c, op, groupID, peerAddr, ids) ==
    /\ FreeSlot(c)
    /\ LET call == [IdleCall EXCEPT !.op = op, !.node = Self,
                                    !.sending = [NoMessage EXCEPT !.groupID = groupID],
                                    !.peerAddr = peerAddr, !.ids = ids,
                                    !.pc = Entry(op, groupID)]
       IN  calls' = [calls EXCEPT ![c] =
                        IF op = "AddGroup" /\ groupID = NilGroupID
                        THEN Done(call, Error("ErrInvalidGroupID", ""))
                        ELSE call]
    /\ UNCHANGED <<dhtVars, store, messages, events, received, delivered>>

\* Broadcast line 69 calls dht.GroupAddresses.
BroadcastCallsGroupAddresses(c) ==
    /\ calls[c].pc = "groupAddresses"
    /\ calls' = [calls EXCEPT ![c].pc = Entry("GroupAddresses", calls[c].sending.groupID)]
    /\ UNCHANGED <<dhtVars, store, messages, events, received, delivered>>

\* mu.RLock() returns.
RLock(c, mu) ==
    /\ calls[c].pc = Pc[mu].RLock
    /\ RLockReady(mu)
    /\ locks' = RLocked(locks, mu, c)
    /\ calls' = [calls EXCEPT ![c].pc = Pc[mu].RUnlock]
    /\ UNCHANGED <<inMemCache, table, groups, updates, written, sampled, hsVars, slices, conn, verifying, pinged,
                   store, messages, events, received, delivered>>

\* mu.Lock() is entered: readers that come later wait behind it.
LockEnter(c, mu) ==
    /\ calls[c].pc = Pc[mu].Lock
    /\ c \notin locks[mu].waiting
    /\ locks' = LockPending(locks, mu, c)
    /\ UNCHANGED <<inMemCache, table, groups, updates, written, sampled, hsVars, slices, conn, verifying, pinged,
                   store, messages, events, calls, received, delivered>>

\* mu.Lock() returns.
Lock(c, mu) ==
    /\ calls[c].pc = Pc[mu].Lock
    /\ LockReady(mu, c)
    /\ locks' = Locked(locks, mu, c)
    /\ calls' = [calls EXCEPT ![c].pc = Pc[mu].Unlock]
    /\ UNCHANGED <<inMemCache, table, groups, updates, written, sampled, hsVars, slices, conn, verifying, pinged,
                   store, messages, events, received, delivered>>

\* The call after GroupAddresses has returned addrs to it: a directory
\* operation returns them, RandomPeerAddresses a sample of them, and
\* Broadcast goes on to line 74.
GotAddresses(call, addrs) ==
    IF call.op = "Broadcast" THEN {[call EXCEPT !.addrs = addrs, !.pc = "ctx"]}
    ELSE IF call.op = "RandomPeerAddresses"
    THEN {[call EXCEPT !.pc = "done", !.err = NoError,
                       !.addrs = [i \in 1..Min(MaxSample, Len(addrs)) |-> addrs[o[i]]]] :
             o \in Orders(DOMAIN addrs)}
    ELSE {[call EXCEPT !.pc = "done", !.err = NoError, !.addrs = addrs]}

\* What a call that holds inMemCacheMu for reading may have read when it
\* releases the mutex.
IndexRead(call) ==
    LET n == call.node
    IN  CASE call.op = "NumPeers" -> {[call EXCEPT !.pc = "done", !.to = NumPeers(n)]}
          [] call.op = "PeerAddress" ->
                LET got == PeerAddressOf(n, call.peerAddr.id)
                IN  {[call EXCEPT !.pc = "done", !.err = got.err, !.prevPeerAddr = got.addr]}
          [] call.op = "PeerAddresses" ->
                {[call EXCEPT !.pc = "done", !.addrs = addrs] : addrs \in PeerAddresses(n)}
          [] call.op = "GroupIDs" ->
                {[call EXCEPT !.pc = "done", !.ids = [i \in DOMAIN addrs |-> addrs[i].id]] :
                    addrs \in PeerAddresses(n)}
          [] OTHER ->
                IF call.sending.groupID = NilGroupID
                THEN UNION {GotAddresses(call, addrs) : addrs \in PeerAddresses(n)}
                ELSE GotAddresses(call, ResolveIDs(n, call.ids))

\* What a call that holds groupsMu for reading has read when GroupIDs
\* returns and releases the mutex (lines 398-407, and 415-418 of its caller).
GroupRead(call) ==
    LET got == GroupIDsOf(call.node, call.sending.groupID)
    IN  IF got.err # NoError THEN Done(call, got.err)
        ELSE IF call.op = "GroupIDs" THEN [call EXCEPT !.pc = "done", !.ids = got.ids]
        ELSE [call EXCEPT !.ids = got.ids, !.pc = Pc.inMemCacheMu.RLock]

\* The body of a reader runs and its deferred mu.RUnlock() releases mu.
RUnlock(c, mu) ==
    /\ calls[c].pc = Pc[mu].RUnlock
    /\ locks' = RUnlocked(locks, mu, c)
    /\ \E after \in IF mu = "groupsMu" THEN {GroupRead(calls[c])} ELSE IndexRead(calls[c]) :
          calls' = [calls EXCEPT ![c] = after]
    /\ UNCHANGED <<inMemCache, table, groups, updates, written, sampled, hsVars, slices, conn, verifying, pinged,
                   store, messages, events, received, delivered>>

\* The directory after the body of a writer, and the error it returns.
Wrote(call) ==
    LET n == call.node
        dir == Directory(n)
        same == [cache |-> dir.cache, table |-> dir.table, groups |-> groups[n], err |-> NoError]
        id == call.sending.groupID
    IN  CASE call.op = "AddPeerAddress" ->
                LET added == addPeerAddressWithoutLock(dir, call.peerAddr, FALSE)
                IN  [same EXCEPT !.cache = added.cache, !.table = added.table, !.err = added.err]
          [] call.op = "UpdatePeerAddress" ->
                LET updated == UpdatedPeerAddress(dir, call.peerAddr, FALSE)
                IN  [same EXCEPT !.cache = updated.cache, !.table = updated.table,
                                 !.err = updated.err]
          [] call.op = "RemovePeerAddress" ->
                LET removed == RemovedPeerAddress(dir, call.peerAddr.id, FALSE)
                IN  [same EXCEPT !.cache = removed.cache, !.table = removed.table,
                                 !.err = removed.err]
          [] call.op = "AddGroup" -> [same EXCEPT !.groups[id] = Group(call.ids)]
          [] call.op = "RemoveGroup" ->
                IF id = NilGroupID THEN same ELSE [same EXCEPT !.groups[id] = NoGroup]

\* The body of a writer runs and its deferred mu.Unlock() releases mu.
Unlock(c, mu) ==
    /\ calls[c].pc = Pc[mu].Unlock
    /\ locks' = Unlocked(locks, mu, c)
    /\ LET call == calls[c]
           wrote == Wrote(call)
       IN  /\ inMemCache' = [inMemCache EXCEPT ![call.node] = wrote.cache]
           /\ table' = [table EXCEPT ![call.node] = wrote.table]
           /\ groups' = [groups EXCEPT ![call.node] = wrote.groups]
           /\ calls' = [calls EXCEPT ![c] = Done(call, wrote.err)]
    /\ UNCHANGED <<updates, written, sampled, hsVars, slices, conn, verifying, pinged,
                   store, messages, events, received, delivered>>

\* A directory in which every peer is known and every group lists every peer.
InitLocks ==
    /\ InitIdle
    /\ inMemCache = [n \in Nodes |-> IF n = Self
                                     THEN [p \in PeerIDs |-> IF p \in 1..MaxPeer /\ p # Self
                                                             THEN KnownAddress(p) ELSE NilAddr]
                                     ELSE EmptyCache]
    /\ table = [n \in Nodes |-> TableOf(inMemCache[n])]
    /\ groups = [n \in Nodes |-> IF n = Self
                                 THEN [g \in 1..MaxGroup |-> Group([i \in 1..MaxPeer |-> i])]
                                 ELSE EmptyGroups]

NextLocks ==
    \/ \E c \in Slots, op \in {"NumPeers", "PeerAddresses"} :
          DirectoryCall(c, op, NilGroupID, NilAddr, <<>>)
    \/ \E c \in Slots, op \in {"PeerAddress"} \cup IndexWrites, p \in 1..MaxPeer :
          DirectoryCall(c, op, NilGroupID, KnownAddress(p), <<>>)
    \/ \E c \in Slots, op \in GroupReads \cup {"RemoveGroup"}, g \in GroupIDs :
          DirectoryCall(c, op, g, NilAddr, <<>>)
    \/ \E c \in Slots, g \in GroupIDs, ids \in SeqsUpTo(1..MaxPeer, MaxGroupLen) :
          DirectoryCall(c, "AddGroup", g, NilAddr, ids)
    \/ \E c \in Slots, mu \in Mutexes : RLock(c, mu)
    \/ \E c \in Slots, mu \in Mutexes : RUnlock(c, mu)
    \/ \E c \in Slots, mu \in Mutexes : LockEnter(c, mu)
    \/ \E c \in Slots, mu \in Mutexes : Lock(c, mu)
    \/ \E c \in Slots, mu \in Mutexes : Unlock(c, mu)
    \/ \E c \in Slots, g \in GroupIDs, b \in Bodies : Broadcast(c, Self, g, b, FALSE)
    \/ \E c \in Slots : BroadcastSeen(c)
    \/ \E c \in Slots : BroadcastCallsGroupAddresses(c)
    \/ \E c \in Slots : BroadcastCtx(c)
    \/ \E c \in Slots : BroadcastInsert(c)
    \/ \E c \in Slots : BroadcastSend(c)
    \/ \E c \in Slots : Cancel(c)
    \/ ReceiveMessage(Self)

SpecLocks == InitLocks /\ [][NextLocks]_vars

(***************************************************************************)
(* SpecStrip: verifyAndStripSignature on a stream of bytes.  The stream    *)
(* holds a length header, or less than one, and then any bytes; a Read may *)
(* yield fewer bytes than asked for, with an error or without.  Lengths    *)
(* are unsigned words of WordBits bits, in which a difference wraps.       *)
(***************************************************************************)
Word == 2 ^ WordBits

\* a - b in unsigned arithmetic
Sub(a, b) == (a - b + Word) % Word

Bytes == 0..MaxByte

RECURSIVE Sum(_)
Sum(s) == IF s = <<>> THEN 0 ELSE Head(s) + Sum(Tail(s))

\* signVerifier.Sign(signVerifier.Hash(data)): SigLength bytes that depend on
\* data.  The first is never zero; any other may be.
Signature(data) ==
    [i \in 1..SigLength |-> IF i = 1 THEN MaxByte ELSE (Sum(data) + i) % (MaxByte + 1)]

\* signVerifier.Verify(signVerifier.Hash(data), sig) returns nil.
SignatureVerifies(data, sig) == sig = Signature(data)

\* make([]byte, size)
Make(size) == [i \in 1..size |-> 0]

\* What r.Read(data) leaves in data when it yields n bytes of the stream.
ReadInto(data, r, n) == [i \in DOMAIN data |-> IF i <= n THEN r[i] ELSE data[i]]

\* data[low:high] is within bounds; the program panics if not.
InBounds(data, low, high) == low <= high /\ high <= Len(data)

Slice(data, low, high) == SubSeq(data, low + 1, high)

\* The streams a call may find: the bytes behind the header.
Streams == SeqsUpTo(Bytes, MaxSize)

\* The call has returned err or nil, or the program has crashed in it.
Stripped(call, result) == [call EXCEPT !.pc = "done", !.result = result]

\* Lines 208-211: the declared length is read from the stream.
StripReadSize ==
    /\ verifying.pc = "size"
    /\ verifying' = IF ~verifying.header THEN Stripped(verifying, "error")
                    ELSE [verifying EXCEPT !.pc = "read"]
    /\ UNCHANGED <<inMemCache, table, groups, updates, written, sampled, hsVars,
                   slices, locks, conn, pinged, store, messages, events, calls, received, delivered>>

\* Line 214: the read is refused when it has failed and is short.
ReadRefused(n, err, size) == err /\ n # size

\* Lines 212-216: one Read into a buffer of the declared length.  The reader
\* yields any number of the bytes it has, up to the length of the buffer,
\* and an error or none.
StripRead ==
    /\ verifying.pc = "read"
    /\ \E n \in 0..Min(verifying.size, Len(verifying.r)), err \in BOOLEAN :
          LET data == ReadInto(Make(verifying.size), verifying.r, n)
              call == [verifying EXCEPT !.n = n, !.readErr = err, !.data = data,
                                        !.r = SubSeq(@, n + 1, Len(@))]
          IN  verifying' = IF ReadRefused(n, err, verifying.size)
                           THEN Stripped(call, "error")
                           ELSE [call EXCEPT !.pc = "verify"]
    /\ UNCHANGED <<inMemCache, table, groups, updates, written, sampled, hsVars,
                   slices, locks, conn, pinged, store, messages, events, calls, received, delivered>>

\* Lines 217-221: the buffer is cut at size-sigLen, and the signature behind
\* the cut is verified against the bytes before it.
StripVerify ==
    /\ verifying.pc = "verify"
    /\ LET data == verifying.data
           cut == Sub(verifying.size, SigLength)
       IN  verifying' =
               IF ~InBounds(data, 0, cut) THEN Stripped(verifying, "panic")
               ELSE IF ~SignatureVerifies(Slice(data, 0, cut), Slice(data, cut, Len(data)))
               THEN Stripped(verifying, "error")
               ELSE [verifying EXCEPT !.pc = "write"]
    /\ UNCHANGED <<inMemCache, table, groups, updates, written, sampled, hsVars,
                   slices, locks, conn, pinged, store, messages, events, calls, received, delivered>>

\* Lines 222-225: the bytes before the cut go to the buffer of the caller.
StripWrite ==
    /\ verifying.pc = "write"
    /\ LET cut == Sub(verifying.size, SigLength)
       IN  verifying' = Stripped([verifying EXCEPT !.w = @ \o Slice(verifying.data, 0, cut)],
                                 "nil")
    /\ UNCHANGED <<inMemCache, table, groups, updates, written, sampled, hsVars,
                   slices, locks, conn, pinged, store, messages, events, calls, received, delivered>>

InitStrip ==
    /\ InitQuiet
    /\ inMemCache = [n \in Nodes |-> EmptyCache]
    /\ table = [n \in Nodes |-> EmptyTable]
    /\ groups = [n \in Nodes |-> EmptyGroups]
    /\ handshakers = NoHandshakers
    /\ rw = NoStream
    /\ slices = NoSlices
    /\ locks = NoLocks
    /\ conn = NoConn
    /\ pinged = NoPinged
    /\ \E header \in BOOLEAN, size \in 0..MaxSize, r \in Streams :
          /\ ~header => size = 0 /\ r = <<>>
          /\ verifying = [NoVerifying EXCEPT !.pc = "size", !.header = header,
                                             !.size = size, !.r = r]

NextStrip ==
    \/ StripReadSize
    \/ StripRead
    \/ StripVerify
    \/ StripWrite

SpecStrip == InitStrip /\ [][NextStrip]_vars

(***************************************************************************)
(* SpecServer: Server.handle on one accepted connection.  The client       *)
(* writes records, some of which are not messages, and may close the       *)
(* connection; messages[Self] is server.messages, which the router of the  *)
(* node receives from.                                                     *)
(***************************************************************************)
\* What a client may write: a record that Message.Read decodes, or one that
\* it fails on.
SentMessages == {NewMessage(V1, variant, NilGroupID, b) : variant \in {"Ping", "Cast"}, b \in Bodies}

Records == [ok : {TRUE}, message : SentMessages] \cup {[ok |-> FALSE, message |-> NoMessage]}

\* protocol.MessageOnTheWire{From: conn.RemoteAddr()}: its message is empty.
NewMessageOnTheWire(from) == [From |-> from, Message |-> NoMessage]

\* messageOtw.Message.Read(conn): the next record of the stream is consumed
\* and decoded into the message; on a record that is no message, and on a
\* connection the client has closed, it fails and leaves the message empty.
MessageRead(messageOtw, stream) ==
    IF stream # <<>> /\ Head(stream).ok
    THEN [messageOtw |-> [messageOtw EXCEPT !.Message = Head(stream).message],
          stream |-> Tail(stream), err |-> NoError]
    ELSE [messageOtw |-> messageOtw,
          stream |-> IF stream = <<>> THEN <<>> ELSE Tail(stream),
          err |-> Error("ErrReadingIncomingMessage", IF stream = <<>> THEN "EOF" ELSE "decode")]

\* The client writes a record to the connection.
ClientWrite(record) ==
    /\ conn.open
    /\ conn.written < MaxRecords
    /\ conn' = [conn EXCEPT !.stream = Append(@, record), !.written = @ + 1]
    /\ UNCHANGED <<inMemCache, table, groups, updates, written, sampled, hsVars,
                   slices, locks, verifying, pinged, store, messages, events, calls, received, delivered>>

\* The client closes the connection.
ClientClose ==
    /\ conn.open
    /\ conn' = [conn EXCEPT !.open = FALSE]
    /\ UNCHANGED <<inMemCache, table, groups, updates, written, sampled, hsVars,
                   slices, locks, verifying, pinged, store, messages, events, calls, received, delivered>>

\* The context given to Listen is cancelled.
ServerCancel ==
    /\ conn.pc \in {"read", "select"}
    /\ ~conn.ctxDone
    /\ conn' = [conn EXCEPT !.ctxDone = TRUE]
    /\ UNCHANGED <<inMemCache, table, groups, updates, written, sampled, hsVars,
                   slices, locks, verifying, pinged, store, messages, events, calls, received, delivered>>

\* Lines 73-80: a new frame, and one Read into its message.  The Read waits
\* while the stream is empty and the connection open.  Its error is logged
\* and the loop goes on to the select.
ServerRead ==
    /\ conn.pc = "read"
    /\ conn.stream # <<>> \/ ~conn.open
    /\ Len(conn.reads) < MaxReads
    /\ LET read == MessageRead(NewMessageOnTheWire(conn.remoteAddr), conn.stream)
       IN  conn' = [conn EXCEPT !.pc = "select", !.messageOtw = read.messageOtw,
                                !.stream = read.stream,
                                !.reads = Append(@, [err |-> read.err,
                                                     message |-> read.messageOtw.Message])]
    /\ UNCHANGED <<inMemCache, table, groups, updates, written, sampled, hsVars,
                   slices, locks, verifying, pinged, store, messages, events, calls, received, delivered>>

\* Lines 82-86: the frame goes to server.messages, or the context is done
\* and the handler returns, closing the connection.
ServerSelect ==
    /\ conn.pc = "select"
    /\ \E case \in SelectReady(conn.ctxDone, Len(messages[Self]), QueueCap) :
          IF case = "send"
          THEN /\ messages' = [messages EXCEPT ![Self] = Append(@, conn.messageOtw)]
               /\ conn' = [conn EXCEPT !.pc = "read", !.sent = Append(@, conn.messageOtw)]
          ELSE /\ conn' = [conn EXCEPT !.pc = "returned", !.open = FALSE]
               /\ UNCHANGED messages
    /\ UNCHANGED <<inMemCache, table, groups, updates, written, sampled, hsVars,
                   slices, locks, verifying, pinged, store, events, calls, received, delivered>>

\* listener.Accept has returned a connection and handle runs on it.
InitServer ==
    /\ InitQuiet
    /\ inMemCache = [n \in Nodes |-> EmptyCache]
    /\ table = [n \in Nodes |-> EmptyTable]
    /\ groups = [n \in Nodes |-> EmptyGroups]
    /\ handshakers = NoHandshakers
    /\ rw = NoStream
    /\ slices = NoSlices
    /\ locks = NoLocks
    /\ verifying = NoVerifying
    /\ pinged = NoPinged
    /\ \E from \in 1..MaxNet :
          conn = [NoConn EXCEPT !.pc = "read", !.open = TRUE, !.remoteAddr = from,
                                !.messageOtw = NewMessageOnTheWire(from)]

NextServer ==
    \/ \E record \in Records : ClientWrite(record)
    \/ ClientClose
    \/ ServerCancel
    \/ ServerRead
    \/ ServerSelect
    \/ ReceiveMessage(Self)

SpecServer == InitServer /\ [][NextServer]_vars

(***************************************************************************)
(* SpecPing: a network of pingPongers.  Node n listens at network address  *)
(* n, and every node knows every other node.  One node announces its       *)
(* address under a new nonce in pings to its peers; the transport takes    *)
(* the frames of each outbound channel in order and hands each to          *)
(* AcceptPing or AcceptPong of the node that listens at its target, where  *)
(* the calls of different connections overlap; no context is cancelled.    *)
(***************************************************************************)
\* The nodes of the network: those a network address can tell apart.
PingNodes == {n \in Nodes : n <= MaxNet}

\* The address the peers of node n hold of it before the announcement.
KnownOf(n) == PeerAddress(n, n, 1)

Announcer == Self

\* The address the announcer has taken: the same node under a higher nonce.
Announced == PeerAddress(Announcer, Announcer, MaxNonce)

InitPing ==
    /\ InitIdle
    /\ inMemCache = [n \in Nodes |-> [p \in PeerIDs |->
                        IF n \in PingNodes /\ p \in PingNodes /\ p # n THEN KnownOf(p)
                        ELSE NilAddr]]
    /\ table = [n \in Nodes |-> TableOf(inMemCache[n])]
    /\ groups = [n \in Nodes |-> EmptyGroups]

\* pingPonger.Ping of the announcer, whose own address is the announced one:
\* the peer is looked up and the ping goes to its network address (39-61).
AnnouncePing(to) ==
    /\ pinged.announced < MaxAnnounce
    /\ PeerAddressOf(Announcer, to).err = NoError
    /\ Len(messages[Announcer]) < QueueCap
    /\ messages' = [messages EXCEPT ![Announcer] =
                       Append(@, MessageOnTheWire(NetworkAddress(PeerAddressOf(Announcer, to).addr),
                                                  PingMessage("Ping", Encode(Announced))))]
    /\ pinged' = [pinged EXCEPT !.announced = @ + 1]
    /\ UNCHANGED <<inMemCache, table, groups, updates, written, sampled, hsVars,
                   slices, locks, conn, verifying, store, events, calls, received, delivered>>

\* The transport hands the next frame of node n's outbound channel to the
\* node that listens at its target, which accepts it in a call of its own.
\* A call that returns from its lookup (lines 160-169) takes no slot.
DeliverPing(n) ==
    /\ messages[n] # <<>>
    /\ LET wire == Head(messages[n])
           to == wire.To
           op == IF wire.Message.variant = "Ping" THEN "AcceptPing" ELSE "AcceptPong"
           call == AcceptCallPingPong(op, to, wire.Message, FALSE)
       IN  /\ to \in PingNodes
           /\ IF call.pc = "done" THEN UNCHANGED calls
              ELSE \E c \in Slots : /\ FreeSlot(c)
                                    /\ calls' = [calls EXCEPT ![c] = call]
    /\ messages' = [messages EXCEPT ![n] = Tail(@)]
    /\ UNCHANGED <<dhtVars, store, events, received, delivered>>

\* The frames of the variant among those a call has enqueued.
FramesOf(call, variant) == {i \in DOMAIN call.frames : call.frames[i].Message.variant = variant}

\* The handler returns to the transport; what it has sent is kept.
HandlerReturns(c) ==
    /\ calls[c].pc = "done"
    /\ LET call == calls[c]
           n == call.node
       IN  pinged' = [pinged EXCEPT
                         !.pongs[n] = Min(@ + Cardinality(FramesOf(call, "Pong")), CountCap),
                         !.propagated[n] = IF call.known # {} THEN Bump(@) ELSE @]
    /\ calls' = [calls EXCEPT ![c] = IdleCall]
    /\ UNCHANGED <<inMemCache, table, groups, updates, written, sampled, hsVars,
                   slices, locks, conn, verifying, store, messages, events, received, delivered>>

NextPing ==
    \/ \E to \in PingNodes \ {Announcer} : AnnouncePing(to)
    \/ \E n \in PingNodes : DeliverPing(n)
    \/ \E c \in Slots : UpdateAdd(c, FALSE)
    \/ \E c \in Slots : UpdateEvent(c)
    \/ \E c \in Slots : Pong(c)
    \/ \E c \in Slots : PropagatePeerAddresses(c)
    \/ \E c \in Slots : PropagateSend(c)
    \/ \E c \in Slots : HandlerReturns(c)
    \/ \E n \in PingNodes : ReceiveEvent(n)

SpecPing == InitPing /\ [][NextPing]_vars /\ WF_vars(NextPing)

(***************************************************************************)
(* What the claims about the broadcaster speak of.                         *)
(***************************************************************************)
Valid(m) == m.version = V1 /\ m.variant = "Broadcast"

\* The group is one the directory can resolve.
Resolvable(n, groupID) == groupID = NilGroupID \/ groups[n][groupID].ok

\* The members of a group: the entries of its list, or every stored peer.
Members(n, groupID) ==
    IF groupID = NilGroupID THEN Orders(Stored(n)) ELSE {groups[n][groupID].ids}

\* The address of member p of the group: self's own in a named group, and
\* otherwise the stored one (NilAddr when the directory has no entry).
MemberAddress(n, groupID, p) ==
    IF groupID # NilGroupID /\ p = n THEN Me(n) ELSE inMemCache[n][p]

\* How often p is listed in the group, and |GroupAddresses(groupID)|.
Listed(n, groupID, p) ==
    LET ids == CHOOSE ids \in Members(n, groupID) : TRUE
    IN  Cardinality({i \in DOMAIN ids : ids[i] = p})

GroupSize(n, groupID) ==
    LET ids == CHOOSE ids \in Members(n, groupID) : TRUE
    IN  Cardinality({i \in DOMAIN ids : MemberAddress(n, groupID, ids[i]) # NilAddr})

\* The frames the call has enqueued for peer p.
FramesTo(call, p) == Cardinality({i \in DOMAIN call.frames : call.frames[i].To.id = p})

\* A Broadcast call that found its message not yet seen, whose context was
\* never cancelled, on a group the directory resolves.
FreshBroadcast(call) ==
    /\ call.op = "Broadcast"
    /\ call.seenOnBroadcast = "no"
    /\ ~call.ctxDone
    /\ Resolvable(call.node, call.message.groupID)

\* C1: two Broadcast calls of the same group and body in succession, neither
\* cancelled, enqueue |GroupAddresses(G)| frames in total: the second returns
\* success and enqueues nothing.
C1_BroadcastTwiceEnqueuesOnce ==
    \A c1, c2 \in CallIds :
        (/\ FreshBroadcast(calls[c1])
         /\ c1 \in calls[c2].after
         /\ calls[c2].op = "Broadcast"
         /\ calls[c2].message = calls[c1].message
         /\ calls[c2].pc = "done"
         /\ ~calls[c2].ctxDone)
        => /\ calls[c2].err = NoError
           /\ calls[c2].frames = <<>>
           /\ Len(calls[c1].frames) + Len(calls[c2].frames)
                 = GroupSize(Self, calls[c1].message.groupID)

C1_Witness ==
    \E c1, c2 \in CallIds :
        /\ FreshBroadcast(calls[c1])
        /\ c1 \in calls[c2].after
        /\ calls[c2].op = "Broadcast"
        /\ calls[c2].message = calls[c1].message
        /\ calls[c2].pc = "done"
        /\ ~calls[c2].ctxDone
        /\ Len(calls[c1].frames) = 2

C3_AtMostOneEventPerMessage == \A h \in Hashes : received[Self][h] <= 1

\* An AcceptBroadcast call made after an AcceptBroadcast of the same message
\* had returned success.
AfterAccepted(call) ==
    /\ call.op = "AcceptBroadcast"
    /\ \E d \in call.after :
          /\ calls[d].op = "AcceptBroadcast"
          /\ calls[d].err = NoError
          /\ calls[d].message = call.message

\* C4: once an AcceptBroadcast of a message has returned success, every later
\* AcceptBroadcast of it returns success, sends no event and enqueues no frame.
C4_LaterAcceptIsNoOp ==
    \A c \in CallIds :
        AfterAccepted(calls[c])
        => /\ calls[c].emitted = <<>> /\ calls[c].frames = <<>>
           /\ ~calls[c].inserted
           /\ calls[c].pc = "done" => calls[c].err = NoError

\* The later call comes from another peer than the first, which sent its event.
C4_Witness ==
    \E c \in CallIds :
        /\ AfterAccepted(calls[c])
        /\ calls[c].pc = "done"
        /\ \E d \in calls[c].after : calls[d].from # calls[c].from /\ calls[d].emitted # <<>>

\* C5: called with a context that is cancelled already, for a message not yet
\* seen, Broadcast (the group resolving) returns ErrBroadcasting and
\* AcceptBroadcast (the message valid) ErrAcceptingBroadcast, both with the
\* cancellation as cause, and neither puts anything on a channel or inserts
\* the hash.
C5_CancelledCallDoesNothing ==
    \A c \in CallIds :
        LET call == calls[c]
        IN  /\ (/\ call.op = "Broadcast" /\ call.pc = "done" /\ call.cancelledAtCall
                /\ call.seenOnBroadcast = "no"
                /\ Resolvable(call.node, call.message.groupID))
               => /\ call.err = Error("ErrBroadcasting", Canceled)
                  /\ call.emitted = <<>> /\ call.frames = <<>>
                  /\ ~call.inserted
            /\ (/\ call.op = "AcceptBroadcast" /\ call.pc = "done" /\ call.cancelledAtCall
                /\ Valid(call.message)
                /\ call.seenOnAccept = "no")
               => /\ call.err = Error("ErrAcceptingBroadcast", Canceled)
                  /\ call.emitted = <<>> /\ call.frames = <<>>
                  /\ ~call.inserted

C5_Witness ==
    \E c1, c2 \in CallIds :
        /\ calls[c1].op = "Broadcast" /\ calls[c1].pc = "done" /\ calls[c1].cancelledAtCall
        /\ calls[c1].seenOnBroadcast = "no"
        /\ Resolvable(Self, calls[c1].message.groupID)
        /\ calls[c2].op = "AcceptBroadcast" /\ calls[c2].pc = "done" /\ calls[c2].cancelledAtCall
        /\ Valid(calls[c2].message)
        /\ calls[c2].seenOnAccept = "no"
        /\ Hash(calls[c1].message) \notin store[Self]
        /\ Hash(calls[c2].message) \notin store[Self]

\* C6: AcceptBroadcast of a message of another version than V1 returns
\* ErrMessageVersionIsNotSupported, and of a V1 message of another variant
\* than Broadcast ErrMessageVariantIsNotSupported; either way nothing is put
\* on a channel and nothing is inserted into the store.
C6_UnsupportedMessageRejected ==
    \A c \in CallIds :
        LET call == calls[c]
        IN  (call.op = "AcceptBroadcast" /\ ~Valid(call.message))
            => /\ call.pc = "done"
               /\ call.err = IF call.message.version # V1
                             THEN Error("ErrMessageVersionIsNotSupported", "")
                             ELSE Error("ErrMessageVariantIsNotSupported", "")
               /\ call.emitted = <<>> /\ call.frames = <<>>
               /\ ~call.inserted
               /\ call.seenOnAccept = ""

C6_Witness ==
    \E c1, c2 \in CallIds :
        /\ calls[c1].op = "AcceptBroadcast" /\ calls[c1].message.version # V1
        /\ calls[c2].op = "AcceptBroadcast" /\ calls[c2].message.version = V1
        /\ calls[c2].message.variant # "Broadcast"
        /\ store[Self] = {}

\* An AcceptBroadcast call of a valid message that both dedup checks of the
\* call found not yet seen, whose context was never cancelled, on a group the
\* directory resolves.
FreshAccept(call) ==
    /\ call.op = "AcceptBroadcast"
    /\ Valid(call.message)
    /\ call.seenOnAccept = "no"
    /\ call.seenOnBroadcast = "no"
    /\ ~call.ctxDone
    /\ Resolvable(call.node, call.message.groupID)

\* C7: AcceptBroadcast of a valid message not yet seen, never cancelled, sends
\* one MessageReceived event with the message's body and sender and then
\* enqueues |GroupAddresses(G)| frames; no frame is enqueued before the event.
C7_EventBeforeFanOut ==
    \A c \in CallIds :
        LET call == calls[c]
            event == [Message |-> call.message.body, From |-> call.from]
        IN  call.op = "AcceptBroadcast"
            => /\ call.frames # <<>> => call.emitted = <<event>>
               /\ (FreshAccept(call) /\ call.pc = "done")
                  => /\ call.err = NoError
                     /\ call.emitted = <<event>>
                     /\ Len(call.frames) = GroupSize(Self, call.message.groupID)

C7_Witness ==
    \E c \in CallIds :
        /\ FreshAccept(calls[c])
        /\ calls[c].pc = "done"
        /\ Len(calls[c].frames) = 2

\* The message has been broadcast and nothing is left to do: no call is in
\* progress and no frame is in flight.
Quiescent ==
    /\ ~Silent
    /\ \A c \in Slots : calls[c].pc = "idle"
    /\ \A n \in Nodes : messages[n] = <<>>

\* C8: after one Broadcast in a network whose nodes all hold the group with
\* every address known, no member sends MessageReceived for the message more
\* than once, and at quiescence every member has received it.
C8_SaturatesOncePerMember ==
    /\ \A n \in Nodes : received[n][Hash(NetMessage)] <= 1
    /\ Quiescent => \A n \in Range(NetGroup) : delivered[n][Hash(NetMessage)] >= 1

(***************************************************************************)
(* What the claims about the directory and the pingPonger speak of.        *)
(***************************************************************************)
\* The two latest UpdatePeerAddress calls were given a and b, in either
\* order, for one PeerID, a with the higher nonce; both got through to the
\* table, and the address stored before them was none or older than a.
UpdatedWith(a, b) ==
    /\ Len(updates) = 2
    /\ {updates[1].peerAddr, updates[2].peerAddr} = {a, b}
    /\ a.id = b.id
    /\ a.nonce > b.nonce
    /\ updates[1].err = NoError
    /\ updates[2].err = NoError
    /\ IsNewer(a, updates[1].prevPeerAddr)

\* C9: UpdatePeerAddress(b) then UpdatePeerAddress(a), and a then b, for one
\* PeerID and a.Nonce > b.Nonce, leave the directory holding a; the call given
\* a writes and returns true, a call given b that finds an address that b is
\* not newer than returns false with no error and writes nothing.
C9_NewerAddressWins ==
    \A a, b \in GivenAddresses :
        UpdatedWith(a, b) =>
            /\ inMemCache[Self][a.id] = a
            /\ \A i \in DOMAIN updates :
                  LET call == updates[i]
                      stale == call.prevPeerAddr # NilAddr
                                  /\ call.peerAddr.nonce <= call.prevPeerAddr.nonce
                  IN  /\ call.didUpdate = ~stale
                      /\ call.err = NoError
                      /\ call.peerAddr = a => call.didUpdate
            /\ updates[1].peerAddr = a => ~updates[2].didUpdate

\* b then a, both writing, on a directory that had no address for the PeerID.
C9_Witness ==
    \E a, b \in GivenAddresses :
        /\ UpdatedWith(a, b)
        /\ updates[1].peerAddr = b
        /\ updates[1].prevPeerAddr = NilAddr
        /\ updates[1].didUpdate
        /\ updates[2].didUpdate
        /\ inMemCache[Self][a.id] = a

\* AcceptPing or AcceptPong has returned; its body decoded to an address for
\* whose PeerID the directory had no entry.
UnknownPeerAccepted(call) ==
    /\ call.pc = "done"
    /\ call.op \in {"AcceptPing", "AcceptPong"}
    /\ call.peerAddr # NilAddr
    /\ call.prevPeerAddr = NilAddr

\* C10: AcceptPing and AcceptPong of an address p for a PeerID that has no
\* entry in the directory store p and return success (the context not being
\* cancelled and the table taking the write).
C10_UnknownPeerStored ==
    \A c \in Slots :
        (UnknownPeerAccepted(calls[c]) /\ ~calls[c].ctxDone) =>
            /\ calls[c].err = NoError
            /\ calls[c].inserted

\* AcceptPing has returned after adding the address of its body to the
\* directory, its context never cancelled.
PingUpdated(call) ==
    /\ call.pc = "done"
    /\ call.op = "AcceptPing"
    /\ call.inserted
    /\ ~call.ctxDone

\* The frames of the call: first the Pong to the address it added, with self's
\* encoded address, then Pings with the received body, as many to each
\* network address as addresses with it were stored when propagatePing read.
PongThenPings(call) ==
    /\ call.frames # <<>>
    /\ call.frames[1].To = call.peerAddr.net
    /\ call.frames[1].Message = NewMessage(V1, "Pong", NilGroupID, Encode(Me(call.node)))
    /\ \A i \in 2..Len(call.frames) :
          call.frames[i].Message = NewMessage(V1, "Ping", NilGroupID, call.message.body)
    /\ \A net \in 1..MaxNet :
          Cardinality({i \in 2..Len(call.frames) : call.frames[i].To = net})
              = Cardinality({a \in call.known : a.net = net})

\* C11 as stated: an AcceptPing that updates the directory, uncancelled,
\* enqueues one Pong with self's address and then one Ping with the received
\* body per stored peer address, and returns success.
C11_PongThenPingToEveryPeer ==
    \A c \in Slots :
        PingUpdated(calls[c]) => calls[c].err = NoError /\ PongThenPings(calls[c])

\* C11 amended: the same when propagatePing finds at least one address
\* stored; when it finds none (the addresses removed meanwhile) the call
\* has enqueued the Pong alone and returns the error "empty peer addresses".
C11_PongThenPingUnlessEmpty ==
    \A c \in Slots :
        PingUpdated(calls[c]) =>
            /\ PongThenPings(calls[c])
            /\ calls[c].err = IF calls[c].known = {} THEN Error("empty peer addresses", "")
                              ELSE NoError

\* An AcceptPing that has propagated to two stored addresses.
C11_Witness ==
    \E c \in Slots :
        /\ PingUpdated(calls[c])
        /\ Cardinality(calls[c].known) = 2
        /\ Len(calls[c].frames) = 3
        /\ calls[c].err = NoError

\* AcceptPing has returned; the address of its body was not newer than the
\* one it found stored for the PeerID.
StalePingAccepted(call) ==
    /\ call.pc = "done"
    /\ call.op = "AcceptPing"
    /\ call.peerAddr # NilAddr
    /\ call.prevPeerAddr # NilAddr
    /\ call.peerAddr.nonce <= call.prevPeerAddr.nonce

\* C12: an AcceptPing of an address that is not newer than the stored one
\* returns success and has done nothing: no write to the directory, no
\* PeerChanged event, no Pong or Ping frame.
C12_StalePingChangesNothing ==
    \A c \in Slots :
        StalePingAccepted(calls[c]) =>
            /\ calls[c].err = NoError
            /\ ~calls[c].inserted
            /\ calls[c].emitted = <<>>
            /\ calls[c].frames = <<>>

\* A stale AcceptPing of an address with the nonce of the stored one and
\* another network address.
C12_Witness ==
    \E c \in Slots :
        /\ StalePingAccepted(calls[c])
        /\ calls[c].peerAddr.nonce = calls[c].prevPeerAddr.nonce
        /\ calls[c].peerAddr.net # calls[c].prevPeerAddr.net

\* The latest writer's call got as far as the write to the table, which
\* failed: an UpdatePeerAddress gets there unless the address is stale.
WriteFailed ==
    /\ written.op # "none"
    /\ written.storeFails
    /\ written.op = "UpdatePeerAddress" =>
          \/ written.prevPeerAddr = NilAddr
          \/ written.peerAddr.nonce > written.prevPeerAddr.nonce

\* C13: after every AddPeerAddress, UpdatePeerAddress and RemovePeerAddress,
\* in any order, the PeerIDs of the index are the keys of the table (which
\* holds the encoding of each indexed address); a call whose write to the
\* table fails returns an error and changes neither.
C13_IndexAgreesWithTable ==
    /\ \A p \in PeerIDs :
          /\ inMemCache[Self][p] # NilAddr <=> table[Self][p] # NoData
          /\ inMemCache[Self][p] # NilAddr => Decode(table[Self][p]) = inMemCache[Self][p]
    /\ WriteFailed => written.err # NoError /\ ~written.changed

\* A failed write on a directory that holds an address.
C13_Witness ==
    /\ WriteFailed
    /\ written.op = "AddPeerAddress"
    /\ \E p \in PeerIDs : inMemCache[Self][p] # NilAddr /\ table[Self][p] # NoData
    /\ inMemCache[Self][written.peerAddr.id] # written.peerAddr

\* C14: after any sequence of directory operations, NumPeers() is the number
\* of stored peers whose PeerID is not self's.
C14_NumPeersCountsOthers ==
    NumPeers(Self) = Cardinality({p \in PeerIDs : inMemCache[Self][p] # NilAddr /\ p # Me(Self).id})

\* How often address a occurs in the list.
Occurrences(addrs, a) == Cardinality({i \in DOMAIN addrs : addrs[i] = a})

\* C15 as stated: RandomPeerAddresses(G, n) returns min(n, |A|) elements of
\* the resolved list A, pairwise distinct; GroupNotFound for an unknown group.
C15_SampleIsDistinct ==
    sampled.called =>
        IF ~sampled.found THEN sampled.err = Error("ErrGroupNotFound", "")
        ELSE /\ sampled.err = NoError
             /\ Len(sampled.randAddrs) = Min(sampled.n, Len(sampled.addrs))
             /\ Range(sampled.randAddrs) \subseteq Range(sampled.addrs)
             /\ \A i, j \in DOMAIN sampled.randAddrs :
                   i # j => sampled.randAddrs[i] # sampled.randAddrs[j]

\* C15 amended: the min(n, |A|) elements are drawn from distinct positions of
\* A: none occurs more often in the sample than in A.
C15_SampleWithoutReplacement ==
    sampled.called =>
        IF ~sampled.found THEN sampled.err = Error("ErrGroupNotFound", "")
        ELSE /\ sampled.err = NoError
             /\ Len(sampled.randAddrs) = Min(sampled.n, Len(sampled.addrs))
             /\ \A a \in Range(sampled.randAddrs) :
                   Occurrences(sampled.randAddrs, a) <= Occurrences(sampled.addrs, a)

\* A sample of one address from a group of two different ones.
C15_Witness ==
    /\ sampled.called
    /\ sampled.found
    /\ sampled.groupID # NilGroupID
    /\ Cardinality(Range(sampled.addrs)) = 2
    /\ Len(sampled.randAddrs) = 1
    /\ sampled.n = 1

\* C16: a Cast whose context is cancelled when it is called returns the
\* Casting error with the peer and the cause and enqueues nothing, whatever
\* the capacity of the queue; a Cast whose context is never cancelled
\* enqueues the one frame {to, Cast(V1, body)} and returns success.
C16_CancelledCastEnqueuesNothing ==
    \A c \in Slots :
        LET call == calls[c]
        IN  (call.pc = "done" /\ call.op = "Cast") =>
                /\ call.cancelledAtCall =>
                      /\ call.err = [kind |-> "ErrCasting", cause |-> Canceled, PeerID |-> call.to]
                      /\ call.frames = <<>>
                /\ ~call.ctxDone =>
                      /\ call.err = NoError
                      /\ call.frames = <<[To |-> call.to, Message |-> call.sending]>>
                      /\ call.sending.version = V1
                      /\ call.sending.variant = "Cast"

(***************************************************************************)
(* What the claims about the handshake speak of.                           *)
(***************************************************************************)
\* The signature of a frame verifies under the verifier of `role`.
Verifies(role, frame) ==
    Verify(handshakers[role].signVerifier.trusted, SignVerifierHash(frame.data), frame.sig)

\* The frame begins with a ciphertext for the key of `role` whose plaintext
\* is the challenge.
Carries(frame, role, challenge) ==
    /\ frame.data # <<>>
    /\ Head(frame.data).kind = "challenge"
    /\ Head(frame.data).key = handshakers[role].rsaKey
    /\ Head(frame.data).plaintext = challenge

Succeeded(role) == handshakers[role].pc = "Done" /\ handshakers[role].err = NoError

FrameKinds(log) ==
    [i \in DOMAIN log |->
        [from |-> log[i].from,
         kinds |-> [j \in DOMAIN log[i].frame.data |-> log[i].frame.data[j].kind]]]

ThreeFrames ==
    <<[from |-> Initiator, kinds |-> <<"pubKey">>],
      [from |-> Responder, kinds |-> <<"challenge", "pubKey">>],
      [from |-> Initiator, kinds |-> <<"challenge">>]>>

IsPrefix(s, t) == Len(s) <= Len(t) /\ \A i \in DOMAIN s : s[i] = t[i]

StateMachine(role) ==
    IF role = Initiator THEN <<"SendInit", "RecvChallenge", "SendReply">>
    ELSE <<"RecvInit", "SendChallenge", "RecvReply">>

InOrder ==
    /\ IsPrefix(FrameKinds(rw.written), ThreeFrames)
    /\ \A i \in DOMAIN rw.written :
          Verifies(Peer(rw.written[i].from), rw.written[i].frame)
    /\ \A role \in Roles :
          /\ IsPrefix(handshakers[role].steps, StateMachine(role))
          /\ handshakers[role].pc = "Done" => handshakers[role].steps = StateMachine(role)
          /\ handshakers[role].pc # "Done" =>
                handshakers[role].pc = StateMachine(role)[Len(handshakers[role].steps) + 1]

BothSucceeded ==
    /\ \A role \in Roles : Succeeded(role)
    /\ FrameKinds(rw.written) = ThreeFrames
    /\ \A role \in Roles : rw.to[role] = <<>>

FanOut(m) ==
    Cardinality({ci \in Slots \X (1..(MaxPeer + MaxGroupLen + 1)) :
                    /\ ci[2] \in DOMAIN calls[ci[1]].frames
                    /\ calls[ci[1]].frames[ci[2]].Message = m})

\* C19: whatever the interleaving of the Broadcast calls of one message on a
\* broadcaster, made directly or from AcceptBroadcast, the frames enqueued
\* for the message by all of them together are at most |GroupAddresses(G)|.
C19_FanOutAtMostOnce ==
    \A m \in AcceptMessages :
        (Valid(m) /\ Resolvable(Self, m.groupID)) => FanOut(m) <= GroupSize(Self, m.groupID)

\* The address stored for p is replaced, in this step, by another address.
Replaced(p) ==
    /\ inMemCache[Self][p] # NilAddr
    /\ inMemCache'[Self][p] # NilAddr
    /\ inMemCache'[Self][p] # inMemCache[Self][p]

\* C20: whichever writer of the directory takes a step (AddPeerAddress,
\* UpdatePeerAddress, an AcceptPing or AcceptPong handler running beside
\* them, on a directory that dht.New filled from the bootstrap addresses), an
\* address stored for a PeerID is replaced only by one that IsNewer than it,
\* so the nonce stored for the PeerID does not decrease.
C20_ReplacedOnlyByNewer ==
    [][\A p \in PeerIDs :
          Replaced(p) =>
              /\ IsNewer(inMemCache'[Self][p], inMemCache[Self][p])
              /\ inMemCache'[Self][p].nonce >= inMemCache[Self][p].nonce]_vars

(***************************************************************************)
(* What the claims about the dedup store speak of.                         *)
(***************************************************************************)
\* The broadcast frames the broadcaster has put on the outbound queue: those
\* still on it and those its calls have enqueued.
BroadcastFrames ==
    Range(messages[Self]) \cup UNION {Range(calls[c].frames) : c \in CallIds}

\* C21: in every state, the hash of the message of every broadcast frame the
\* broadcaster has put on the outbound queue is in the dedup store, for the
\* messages it originated and for those it accepted.
C21_InsertPrecedesEnqueue ==
    \A wire \in BroadcastFrames : Hash(wire.Message) \in store[Self]

\* A frame of an accepted message is on the queue while its fan-out goes on.
C21_Witness ==
    \E c \in CallIds :
        /\ calls[c].op = "AcceptBroadcast"
        /\ calls[c].pc = "fanout"
        /\ calls[c].frames # <<>>
        /\ messages[Self] # <<>>

\* The hashes of the messages originated through Broadcast and of the valid
\* messages observed through AcceptBroadcast by the calls made so far.
Observed ==
    {Hash(calls[c].message) : c \in {d \in CallIds : calls[d].op = "Broadcast"}}
        \cup {Hash(calls[c].message) :
                 c \in {d \in CallIds : calls[d].op = "AcceptBroadcast"
                                          /\ Valid(calls[d].message)}}

\* C22: when every Broadcast and AcceptBroadcast call made has returned, the
\* dedup store holds exactly the hashes of the messages originated through
\* Broadcast or observed, valid, through AcceptBroadcast, those of the calls
\* that ended with a cancellation or a directory error included.
C22_StoreHoldsAllObserved ==
    (\A c \in CallIds : ~Running(c)) => store[Self] = Observed

\* A call whose context was cancelled after Broadcast's check of it (lines
\* 75-79) had passed: it has inserted its hash, and its context is done.
CancelledInFanOut(call) ==
    /\ call.op \in {"Broadcast", "AcceptBroadcast"}
    /\ call.inserted
    /\ call.ctxDone

\* The targets of the call: the addresses of the group that are not nil.
Targets(n, groupID) == GroupSize(n, groupID)

\* C23: a Broadcast whose context is cancelled after its check of the context
\* has passed returns success; it has enqueued at most one frame per target,
\* the hash of its message is in the dedup store, and a later Broadcast of
\* the same message enqueues nothing.
C23_CancelledFanOutSucceeds ==
    \A c \in CallIds :
        (CancelledInFanOut(calls[c]) /\ calls[c].pc = "done") =>
            /\ calls[c].err = NoError
            /\ Len(calls[c].frames) <= Targets(Self, calls[c].sending.groupID)
            /\ \A i \in DOMAIN calls[c].frames :
                  calls[c].frames[i].Message = calls[c].sending
            /\ Hash(calls[c].sending) \in store[Self]
            /\ \A d \in CallIds :
                  (/\ c \in calls[d].after
                   /\ calls[d].op = "Broadcast"
                   /\ calls[d].message = calls[c].sending)
                  => /\ calls[d].frames = <<>>
                     /\ calls[d].pc = "done" => calls[d].err = NoError

\* One of two targets was dropped, and a later Broadcast of the message has
\* returned.
C23_Witness ==
    \E c, d \in CallIds :
        /\ CancelledInFanOut(calls[c])
        /\ calls[c].pc = "done"
        /\ Len(calls[c].frames) = 1
        /\ Targets(Self, calls[c].sending.groupID) = 2
        /\ c \in calls[d].after
        /\ calls[d].op = "Broadcast"
        /\ calls[d].message = calls[c].sending
        /\ calls[d].pc = "done"

(***************************************************************************)
(* What the claims about the events of the pingPonger speak of.            *)
(***************************************************************************)
Handler(call) == call.op \in {"AcceptPing", "AcceptPong"}

\* In this step call c puts its PeerChanged event on the event queue.
EventPut(c) == Handler(calls[c]) /\ calls'[c].emitted # calls[c].emitted

\* The directory of the call's node holds the call's address or a newer one.
HoldsOrNewer(call) ==
    LET stored == inMemCache[call.node][call.peerAddr.id]
    IN  stored # NilAddr /\ (stored = call.peerAddr \/ IsNewer(stored, call.peerAddr))

\* The state half of C24: an event was sent only by a call that had written,
\* and frames were enqueued only by a call that had sent its event.
EventAfterWrite ==
    \A c \in Slots :
        Handler(calls[c]) =>
            /\ calls[c].pc = "event" => calls[c].inserted
            /\ calls[c].emitted # <<>> =>
                  /\ calls[c].inserted
                  /\ calls[c].emitted = <<EventPeerChanged(calls[c].peerAddr)>>
            /\ calls[c].frames # <<>> => calls[c].emitted # <<>>

\* The step half of C24: the step that takes a handler to its event has
\* written the handler's address into the directory, and the step that puts
\* the event is taken by a handler that has written and has enqueued nothing.
WriteThenEvent ==
    \A c \in Slots :
        /\ (Handler(calls[c]) /\ calls[c].pc = "add" /\ calls'[c].pc = "event") =>
              inMemCache'[calls[c].node][calls[c].peerAddr.id] = calls[c].peerAddr
        /\ EventPut(c) =>
              /\ calls[c].pc = "event"
              /\ calls[c].inserted
              /\ calls[c].frames = <<>>

\* C24 as stated: whenever AcceptPing or AcceptPong puts the PeerChanged event
\* for p on the event queue, the directory holds p or a newer address for
\* p's PeerID.
C24_DirectoryHoldsAtEvent ==
    [][\A c \in Slots : EventPut(c) => HoldsOrNewer(calls[c])]_vars

\* C24 as the code has it: the handler's write of p into the directory
\* precedes its PeerChanged event for p, and its Pong and Pings are enqueued
\* only after the event; the directory holds p from the write until another
\* writer replaces or removes the entry.
C24_WritePrecedesEvent == [](EventAfterWrite) /\ [][WriteThenEvent]_vars

\* AcceptPing has sent its event and its Pong, and the entry it wrote has been
\* removed since.
C24_Witness ==
    \E c \in Slots :
        /\ calls[c].op = "AcceptPing"
        /\ calls[c].emitted # <<>>
        /\ calls[c].frames # <<>>
        /\ inMemCache[Self][calls[c].peerAddr.id] = NilAddr

\* C25: a handler that has returned after changing the stored address has
\* put exactly one PeerChanged event for that address on the event queue,
\* also when its context was cancelled during the call.
C25_EveryChangeHasItsEvent ==
    \A c \in Slots :
        (Handler(calls[c]) /\ calls[c].pc = "done" /\ calls[c].inserted) =>
            calls[c].emitted = <<EventPeerChanged(calls[c].peerAddr)>>

\* AcceptPing has returned from propagatePing's loop.
Propagated(call) == call.op = "AcceptPing" /\ call.pc = "done" /\ call.known # {}

\* The Pings of the call: its frames after the Pong.
Pings(call) == SubSeq(call.frames, 2, Len(call.frames))

\* C26: when the context is cancelled while propagatePing iterates, the call
\* returns nil if and only if a Ping was enqueued for every target, and else
\* the cancellation error; the frames it enqueued are Pings with its body to
\* targets it read, and the loop has handled every target.
C26_LastErrorReturned ==
    \A c \in Slots :
        Propagated(calls[c]) =>
            /\ calls[c].err = NoError <=> Len(Pings(calls[c])) = Cardinality(calls[c].known)
            /\ calls[c].err # NoError => calls[c].err = CtxErr /\ calls[c].ctxDone
            /\ Len(Pings(calls[c])) <= Cardinality(calls[c].known)
            /\ \A i \in DOMAIN Pings(calls[c]) :
                  /\ Pings(calls[c])[i].Message = PingMessage("Ping", calls[c].message.body)
                  /\ \E a \in calls[c].known : Pings(calls[c])[i].To = NetworkAddress(a)

\* Of two targets one was dropped and one was enqueued, the context done:
\* the call returns the error.
C26_Witness ==
    \E c \in Slots :
        /\ Propagated(calls[c])
        /\ calls[c].ctxDone
        /\ Cardinality(calls[c].known) = 2
        /\ Len(Pings(calls[c])) = 1
        /\ calls[c].err = CtxErr

(***************************************************************************)
(* What the claims about the groups speak of.                              *)
(***************************************************************************)
\* C27: the PeerID lists of the groups change only in a step of AddGroup or
\* RemoveGroup: not when peers are added or removed, not when the caller
\* writes into a list GroupIDs returned or into the list it passed to
\* AddGroup; GroupIDs returns the whole list the group holds; AddGroup with
\* NilGroupID returns InvalidGroupID and leaves the groups as they were.
C27_GroupsChangeOnlyByAddAndRemove ==
    [][/\ groups' # groups => slices'.op \in {"AddGroup", "RemoveGroup"}
       /\ (slices'.op = "GroupIDs" /\ slices'.groupID # NilGroupID) =>
             /\ groups' = groups
             /\ slices'.err = NoError <=> groups[Self][slices'.groupID].ok
             /\ slices'.err = NoError => slices'.ids = groups[Self][slices'.groupID].ids
       /\ (slices'.op = "AddGroup" /\ slices'.groupID = NilGroupID /\ slices' # slices) =>
             /\ slices'.err = Error("ErrInvalidGroupID", "")
             /\ groups' = groups]_vars


(***************************************************************************)
(* What the claim about the two mutexes of the directory speaks of.        *)
(***************************************************************************)
\* The call is in an operation of the directory: about to take a mutex,
\* blocked in it, or holding it.
AtLock(c) == \E mu \in Mutexes : calls[c].pc \in {Pc[mu].RLock, Pc[mu].RUnlock,
                                                  Pc[mu].Lock, Pc[mu].Unlock}

\* The next step of a call inside an operation of the directory.
LockStep(c) ==
    \E mu \in Mutexes :
        RLock(c, mu) \/ RUnlock(c, mu) \/ LockEnter(c, mu) \/ Lock(c, mu) \/ Unlock(c, mu)

\* The fan-out of the call waits for room in the outbound queue.
BlockedInFanOut(c) ==
    /\ calls[c].op = "Broadcast"
    /\ calls[c].pc = "fanout"
    /\ ~calls[c].ctxDone
    /\ Len(messages[calls[c].node]) = QueueCap

\* A mutex is held only by a call that is inside the section it guards.
HeldInside ==
    \A c \in Slots, mu \in Mutexes :
        /\ c \in locks[mu].readers => calls[c].pc = Pc[mu].RUnlock
        /\ c \in locks[mu].writer => calls[c].pc = Pc[mu].Unlock
        /\ c \in locks[mu].waiting => calls[c].pc = Pc[mu].Lock

\* No call holds both mutexes.
NeverBoth == \A c \in Slots : ~(Holds(c, "groupsMu") /\ Holds(c, "inMemCacheMu"))

\* Among the calls inside the directory one can always take its next step,
\* and a call that is alone there can take its own, whatever the calls in a
\* fan-out are waiting for.
DirectoryAvailable ==
    /\ (\E c \in Slots : AtLock(c)) => \E d \in Slots : AtLock(d) /\ ENABLED LockStep(d)
    /\ \A c \in Slots : AtLock(c) /\ (\A d \in Slots \ {c} : ~AtLock(d)) => ENABLED LockStep(c)

\* A fan-out is blocked only by the full queue, which the transport drains.
FanOutDrains ==
    \A c \in Slots : calls[c].pc = "fanout" =>
        ENABLED BroadcastSend(c) \/ ENABLED ReceiveMessage(calls[c].node)

\* C28: no call holds dht.inMemCacheMu and dht.groupsMu at the same time, a
\* Broadcast in its fan-out holds neither, the calls inside the directory
\* never all wait for each other, and a directory operation beside a blocked
\* fan-out can take its next step.
C28_LocksNeverNestedNorBlocked ==
    /\ HeldInside
    /\ NeverBoth
    /\ \A c \in Slots, mu \in Mutexes : calls[c].pc = "fanout" => ~Holds(c, mu)
    /\ DirectoryAvailable
    /\ FanOutDrains

\* A Broadcast waits for room in the outbound queue while another call
\* holds the index for writing.
C28_Witness ==
    \E c, d \in Slots :
        /\ BlockedInFanOut(c)
        /\ d # c
        /\ calls[d].op \in IndexWrites
        /\ d \in locks["inMemCacheMu"].writer

(***************************************************************************)
(* What the claim about malformed frames speaks of.                        *)
(***************************************************************************)
\* The call has read a frame whose declared length is smaller than a
\* signature, or of which the stream yielded less than the declared length.
Malformed(call) == call.header /\ (call.size < SigLength \/ call.n < call.size)

\* C29: verifyAndStripSignature returns an error, does not crash and writes
\* no payload to its caller's buffer, for every frame whose declared length
\* is smaller than SigLength() and for every read that yields fewer bytes
\* than declared, with a read error or without.
C29_MalformedFrameEndsInError ==
    (verifying.pc = "done" /\ Malformed(verifying)) =>
        verifying.result = "error" /\ verifying.w = <<>>

\* The program crashes on a frame shorter than a signature.
C29_ShortFramePanics ==
    verifying.pc = "done" /\ verifying.size < SigLength /\ verifying.result = "panic"

\* A short read without an error passes its payload on.
C29_ShortReadPasses ==
    /\ verifying.pc = "done"
    /\ verifying.size >= SigLength
    /\ verifying.n < verifying.size
    /\ verifying.result = "nil"
    /\ verifying.w # <<>>

(***************************************************************************)
(* What the claim about the tcp server speaks of.                          *)
(***************************************************************************)
\* The messages the handler has read without an error, in read order, as
\* frames from the connection's remote address.
RECURSIVE ReadFrames(_, _)
ReadFrames(from, reads) ==
    IF reads = <<>> THEN <<>>
    ELSE (IF Head(reads).err = NoError
          THEN <<[From |-> from, Message |-> Head(reads).message]>> ELSE <<>>)
         \o ReadFrames(from, Tail(reads))

\* C30: the frames the handler of a connection has put on the inbound queue
\* are the messages it has read successfully from the connection, in read
\* order (all of them once the select that follows a read has sent): a
\* failed read enqueues nothing.
C30_EnqueuedAreTheMessagesRead ==
    LET read == ReadFrames(conn.remoteAddr, conn.reads)
    IN  /\ IsPrefix(conn.sent, read)
        /\ conn.pc = "read" => conn.sent = read

\* The client has closed the connection, and the handler has put a frame on
\* the queue for each of two reads that failed after that.
C30_ClosedKeepsProducing ==
    /\ conn.written = 0
    /\ Len(conn.sent) >= 2
    /\ conn.pc # "returned"

(***************************************************************************)
(* What the claim about the propagation of pings speaks of.                *)
(***************************************************************************)
\* The Pongs node n has sent, in calls that have returned and in calls
\* that are running.
PongsSent(n) ==
    pinged.pongs[n]
        + Cardinality({c \in Slots : calls[c].node = n /\ FramesOf(calls[c], "Pong") # {}})

\* The propagations node n has started.
Propagations(n) ==
    pinged.propagated[n]
        + Cardinality({c \in Slots : calls[c].node = n /\ calls[c].known # {}})

\* No frame is in flight and no handler is running.
Quiet ==
    /\ \A n \in Nodes : messages[n] = <<>>
    /\ \A c \in Slots : ~Running(c)

\* C31 (at most once): for the one announced address, each node sends at
\* most one Pong and propagates the Ping at most once.
C31_PongAndPropagateAtMostOnce ==
    \A n \in Nodes : PongsSent(n) <= 1 /\ Propagations(n) <= 1

\* C31 (termination): with fair delivery the network comes to rest with no
\* Ping or Pong frame in flight.
C31_ComesToRest == <>[]Quiet

\* Both announcements were accepted by handlers that updated, and the node
\* has sent two Pongs for the one address.
C31_TwoPongs == \E n \in Nodes : PongsSent(n) = 2 /\ Quiet

=============================================================================
